---- MODULE Spec2Model ----
(***************************************************************************)
(* Subscription lifecycle and payment-gateway integration of go-backend:   *)
(* the razorpay config store, the per-tenant client cache, checkout        *)
(* creation, payment verification, webhook reconciliation and cancel.      *)
(*                                                                         *)
(* Modelling conventions                                                   *)
(*  - a table is a sequence of rows; a row's primary key is its index      *)
(*    (uuid.New() only has to be fresh);                                   *)
(*  - an absent JSON key, a nil pointer and a NULL column are NoField;     *)
(*  - a service method is an operator from the stores and the request to   *)
(*    the new stores and the error it returns; the action applies it;      *)
(*  - the payment gateway is external: its answers are inputs.             *)
(***************************************************************************)
EXTENDS Integers, Sequences, FiniteSets, TLC

VARIABLES
    configs,      \* table razorpay_configs
    subs,         \* table subscriptions
    clientCache,  \* subscriptionService.clientCache: cache key -> client
    last,         \* the last request served: operation, error, HTTP status, gateway calls
    gr,           \* goroutines inside getRazorpayClient (SpecCache)
    rw,           \* subscriptionService.cacheMutex (SpecCache)
    built,        \* razorpay.NewClient calls per cache key (SpecCache)
    ckReq,        \* the checkout request under study (SpecCheckout)
    ckSent,       \* what that checkout sent to the gateway (SpecCheckout)
    pages,        \* the list request under study and the pages fetched so far (SpecPage)
    twin,         \* a second config store and the responses of both stores (SpecTwin)
    sigCheck,     \* a signature verification under study: inputs and results (SpecVerify)
    handlers      \* requests in flight, each between its reads and its writes, and the
                  \* clock they read (SpecRace, SpecCreateRace)

vars ==
    <<configs, subs, clientCache, last, gr, rw, built, ckReq, ckSent, pages, twin, sigCheck,
      handlers>>

NoField == "<absent>"   \* an absent string-valued field
Null == <<>>             \* an absent number-valued field; <<v>> when present

(***************************************************************************)
(* Bounds                                                                  *)
(***************************************************************************)
MaxConfigs == 2      \* rows of razorpay_configs
MaxSubs == 2         \* rows of subscriptions
MaxTime == 2         \* distinct readings of time.Now()
MaxGoroutines == 3   \* concurrent getRazorpayClient calls

(***************************************************************************)
(* Input domains                                                           *)
(***************************************************************************)
ConfigApps == {"app1"}
Envs == {"test", "live"}
KeySecrets == {"ks1", "ks2"}
WebhookSecrets == {"ws1", "ws2"}
Credentials ==
    { [RazorpayKeyID |-> "kid1", RazorpayKeySecret |-> "ks1", RazorpayWebhookSecret |-> "ws1"],
      [RazorpayKeyID |-> "kid2", RazorpayKeySecret |-> "ks2", RazorpayWebhookSecret |-> "ws2"] }
Times == 1..MaxTime

(***************************************************************************)
(* pkg/secure: AES-GCM string codec                                        *)
(***************************************************************************)
EncryptString(plaintext) ==
    IF plaintext = "" THEN "" ELSE <<"aes-gcm", plaintext>>

DecryptString(ciphertext) ==
    IF ciphertext = "" THEN "" ELSE ciphertext[2]

(***************************************************************************)
(* pkg/utils                                                               *)
(***************************************************************************)
GoEnv == "development"

GetRazorpayEnvironment ==
    IF GoEnv = "prod" \/ GoEnv = "production" THEN "live" ELSE "test"

(***************************************************************************)
(* razorpay config repository                                              *)
(***************************************************************************)
ErrRecordNotFound == "record not found"
ErrDuplicateKey == "duplicate key value violates unique constraint"

DecryptConfig(row) ==
    [row EXCEPT !.RazorpayKeyID = DecryptString(@),
                !.RazorpayKeySecret = DecryptString(@),
                !.RazorpayWebhookSecret = DecryptString(@)]

EncryptConfig(cfg) ==
    [cfg EXCEPT !.RazorpayKeyID = EncryptString(@),
                !.RazorpayKeySecret = EncryptString(@),
                !.RazorpayWebhookSecret = EncryptString(@)]

\* the table without its UNIQUE constraint
ConfigUniqueNeverViolated(C, app, env) == FALSE

\* UNIQUE(app_name, environment): soft-deleted rows still occupy their pair.
ConfigUniqueViolation(C, app, env) ==
    \E i \in 1..Len(C) : C[i].AppName = app /\ C[i].Environment = env

\* the is_active column is tagged gorm:"default:true": on db.Create gorm writes the
\* default in place of a zero (false) field value, and sets the struct field to it
GormCreateIsActive(isActive) == IF isActive = FALSE THEN TRUE ELSE isActive

ConfigRepoCreate(C, cfg) ==
    IF ConfigUniqueViolation(C, cfg.AppName, cfg.Environment)
    THEN [err |-> ErrDuplicateKey, configs |-> C]
    ELSE [err |-> "",
          configs |-> Append(C, EncryptConfig([cfg EXCEPT
                                    !.ID = Len(C) + 1,
                                    !.IsActive = GormCreateIsActive(@)]))]

ConfigRepoFindByID(C, id) ==
    IF id \in 1..Len(C) /\ ~C[id].Deleted
    THEN [err |-> "", config |-> DecryptConfig(C[id])]
    ELSE [err |-> ErrRecordNotFound]

ActiveMatches(C, app, env) ==
    { i \in 1..Len(C) : /\ C[i].AppName = app
                        /\ C[i].Environment = env
                        /\ C[i].IsActive
                        /\ ~C[i].Deleted }

ConfigRepoFindByAppNameAndEnv(C, app, env) ==
    IF ActiveMatches(C, app, env) # {}
    THEN [err |-> "",
          config |-> DecryptConfig(
              C[CHOOSE i \in ActiveMatches(C, app, env) :
                    \A j \in ActiveMatches(C, app, env) : i <= j])]
    ELSE [err |-> ErrRecordNotFound]

ConfigRepoUpdate(C, cfg) ==
    [err |-> "", configs |-> [C EXCEPT ![cfg.ID] = EncryptConfig(cfg)]]

ConfigRepoDelete(C, id) ==
    IF id \in 1..Len(C) /\ ~C[id].Deleted
    THEN [err |-> "", configs |-> [C EXCEPT ![id].Deleted = TRUE]]
    ELSE [err |-> "razorpay config not found", configs |-> C]

(***************************************************************************)
(* razorpay config service and HTTP handler                                *)
(***************************************************************************)
ErrConfigExists == "app_name and environment combination already exists"

CreateConfigReqs ==
    [AppName : ConfigApps, Environment : Envs, cred : Credentials,
     IsActive : {NoField, "true", "false"}]

\* lines 42-60: the struct handed to repo.Create
NewConfig(req) ==
    [ID |-> 0,
     AppName |-> req.AppName,
     Environment |-> req.Environment,
     RazorpayKeyID |-> req.cred.RazorpayKeyID,
     RazorpayKeySecret |-> req.cred.RazorpayKeySecret,
     RazorpayWebhookSecret |-> req.cred.RazorpayWebhookSecret,
     IsActive |-> (req.IsActive # "false"),
     Deleted |-> FALSE]

\* lines 36-39: the existence check, an active config that is not soft-deleted
PairTaken(C, req) == ConfigRepoFindByAppNameAndEnv(C, req.AppName, req.Environment).err = ""

CreateRazorpayConfig(C, req) ==
    IF PairTaken(C, req)
    THEN [err |-> ErrConfigExists, configs |-> C]
    ELSE ConfigRepoCreate(C, NewConfig(req))

CreateConfigStatus(err) ==
    IF err = "" THEN 201
    ELSE IF err = ErrConfigExists THEN 409
    ELSE 500

NotFoundStatus(err) == IF err = "" THEN 200 ELSE 404

\* hasCred: the request carries the three credential fields
UpdateConfigReqs ==
    [hasCred : BOOLEAN, cred : Credentials, IsActive : {NoField, "true", "false"}]

UpdateRazorpayConfig(C, id, req) ==
    LET found == ConfigRepoFindByID(C, id)
    IN  IF found.err # ""
        THEN [err |-> "razorpay config not found", configs |-> C]
        ELSE LET c1 == IF ~req.hasCred THEN found.config
                       ELSE [found.config EXCEPT
                                !.RazorpayKeyID = req.cred.RazorpayKeyID,
                                !.RazorpayKeySecret = req.cred.RazorpayKeySecret,
                                !.RazorpayWebhookSecret = req.cred.RazorpayWebhookSecret]
                 c2 == IF req.IsActive = NoField THEN c1
                       ELSE [c1 EXCEPT !.IsActive = (req.IsActive = "true")]
             IN  ConfigRepoUpdate(C, c2)

DeleteRazorpayConfig(C, id) == ConfigRepoDelete(C, id)

\* a response that carries the key id
ToResponseWithKeyID(config) ==
    [ID |-> config.ID, AppName |-> config.AppName, Environment |-> config.Environment,
     IsActive |-> config.IsActive, RazorpayKeyID |-> config.RazorpayKeyID]

\* RazorpayConfig.ToResponse: the response carries no credential field
ToResponse(config) ==
    [ID |-> config.ID, AppName |-> config.AppName, Environment |-> config.Environment,
     IsActive |-> config.IsActive]

Reverse(s) == [i \in 1..Len(s) |-> s[Len(s) + 1 - i]]

\* WHERE deleted_at IS NULL [AND is_active = true]
Listed(C, activeOnly) ==
    LET Test(row) == ~row.Deleted /\ (activeOnly => row.IsActive)
    IN  SelectSeq(C, Test)

\* OFFSET offset LIMIT limit
OffsetLimit(s, offset, limit) ==
    SubSeq(s, offset + 1, IF offset + limit < Len(s) THEN offset + limit ELSE Len(s))

\* the count query, the page query ORDER BY created_at DESC (rows are stored in
\* creation order), and the decryption of every row of the page
ConfigRepoFindAll(C, page, pageSize, activeOnly) ==
    LET rows == OffsetLimit(Reverse(Listed(C, activeOnly)), (page - 1) * pageSize, pageSize)
    IN  [configs |-> [i \in 1..Len(rows) |-> DecryptConfig(rows[i])],
         total |-> Len(Listed(C, activeOnly))]

\* the page count without the last, partial page
TotalPagesTruncated(total, pageSize) == total \div pageSize

TotalPages(total, pageSize) ==
    IF total % pageSize # 0 THEN total \div pageSize + 1 ELSE total \div pageSize

GetAllRazorpayConfigs(C, page0, pageSize0, activeOnly) ==
    LET page == IF page0 < 1 THEN 1 ELSE page0
        pageSize == IF pageSize0 < 1 \/ pageSize0 > 100 THEN 10 ELSE pageSize0
        found == ConfigRepoFindAll(C, page, pageSize, activeOnly)
        totalPages == TotalPages(found.total, pageSize)
    IN  [Data |-> [i \in 1..Len(found.configs) |-> ToResponse(found.configs[i])],
         Page |-> page,
         PageSize |-> pageSize,
         Total |-> found.total,
         TotalPages |-> totalPages,
         NextPage |-> IF page < totalPages THEN <<page + 1>> ELSE Null,
         PrevPage |-> IF page > 1 THEN <<page - 1>> ELSE Null]

\* c.JSON(status, gin.H{"error": err.Error()})
ErrorResponse(status, err) == [status |-> status, body |-> [error |-> err]]

\* POST /razorpay-configs: the body is ToResponse of the struct gorm filled in on insert
HandleCreateRazorpayConfig(C, req) ==
    LET r == CreateRazorpayConfig(C, req)
    IN  IF r.err # "" THEN ErrorResponse(CreateConfigStatus(r.err), r.err)
        ELSE [status |-> 201, body |-> ToResponse(r.configs[Len(r.configs)])]

\* GET /razorpay-configs/:id
HandleGetRazorpayConfigByID(C, id) ==
    LET found == ConfigRepoFindByID(C, id)
    IN  IF found.err # "" THEN ErrorResponse(404, "razorpay config not found")
        ELSE [status |-> 200, body |-> ToResponse(found.config)]

\* GET /razorpay-configs/by-app: app and env are the query values, NoField when absent
HandleGetRazorpayConfigByAppNameAndEnv(C, app, env) ==
    LET environment == IF env = NoField THEN "test" ELSE env
        found == ConfigRepoFindByAppNameAndEnv(C, app, environment)
    IN  IF app = NoField \/ app = "" THEN ErrorResponse(400, "app_name is required")
        ELSE IF environment # "test" /\ environment # "live"
        THEN ErrorResponse(400, "environment must be 'test' or 'live'")
        ELSE IF found.err # "" THEN ErrorResponse(404, "razorpay config not found")
        ELSE [status |-> 200, body |-> ToResponse(found.config)]

\* GET /razorpay-configs
HandleGetAllRazorpayConfigs(C, page, pageSize, activeOnly) ==
    [status |-> 200, body |-> GetAllRazorpayConfigs(C, page, pageSize, activeOnly)]

\* PUT /razorpay-configs/:id: the body is ToResponse of the struct that was saved
HandleUpdateRazorpayConfig(C, id, req) ==
    LET r == UpdateRazorpayConfig(C, id, req)
    IN  IF r.err # "" THEN ErrorResponse(NotFoundStatus(r.err), r.err)
        ELSE [status |-> 200, body |-> ToResponse(r.configs[id])]

\* DELETE /razorpay-configs/:id
HandleDeleteRazorpayConfig(C, id) ==
    LET r == DeleteRazorpayConfig(C, id)
    IN  IF r.err # "" THEN ErrorResponse(NotFoundStatus(r.err), r.err)
        ELSE [status |-> 200, body |-> [message |-> "razorpay config deleted successfully"]]

(***************************************************************************)
(* subscription repository                                                 *)
(***************************************************************************)
GatewayIds == {"sub_A", "6ba7b810-9dad-11d1-80b4-00c04fd430c8"}
UUIDStrings == {"6ba7b810-9dad-11d1-80b4-00c04fd430c8"}

\* the column without its UNIQUE constraint
SubUniqueNeverViolated(S, gid) == FALSE

\* UNIQUE razorpay_subscription_id
SubUniqueViolation(S, gid) ==
    \E i \in 1..Len(S) : S[i].RazorpaySubscriptionID = gid

\* uuid.Nil
UUIDNil == 0

\* uuid.New(): a value no stored row carries; rows are keyed 1, 2, ... in insertion order
UUIDNew(S) == Len(S) + 1

\* the hook without the generated key
BeforeCreateKeepingNil(S, sub) == sub

\* Subscription.BeforeCreate
BeforeCreate(S, sub) ==
    IF sub.ID = UUIDNil THEN [sub EXCEPT !.ID = UUIDNew(S)] ELSE sub

SubRepoCreate(S, sub) ==
    IF SubUniqueViolation(S, sub.RazorpaySubscriptionID)
    THEN [err |-> ErrDuplicateKey, subs |-> S]
    ELSE [err |-> "", subs |-> Append(S, BeforeCreate(S, sub))]

SubRepoFindByID(S, id) ==
    IF id \in 1..Len(S)
    THEN [err |-> "", sub |-> S[id]]
    ELSE [err |-> ErrRecordNotFound]

SubMatches(S, gid) == { i \in 1..Len(S) : S[i].RazorpaySubscriptionID = gid }

FindByRazorpaySubscriptionID(S, gid) ==
    IF SubMatches(S, gid) # {}
    THEN [err |-> "",
          sub |-> S[CHOOSE i \in SubMatches(S, gid) : \A j \in SubMatches(S, gid) : i <= j]]
    ELSE [err |-> ErrRecordNotFound]

\* db.Save: every column of the row is rewritten from the struct
SubRepoUpdate(S, sub) == [S EXCEPT ![sub.ID] = sub]

\* UPDATE subscriptions SET status = ? WHERE id = ?
SubRepoUpdateStatus(S, id, status) ==
    [i \in 1..Len(S) |-> IF S[i].ID = id THEN [S[i] EXCEPT !.Status = status] ELSE S[i]]

\* uuid.MustParse: rows are keyed 1, 2, ...; 0 is a well-formed UUID that keys no row
UUIDMustParse(s) ==
    IF s \in UUIDStrings THEN [panic |-> FALSE, id |-> 0] ELSE [panic |-> TRUE, id |-> 0]

(***************************************************************************)
(* encoding/json and time formatting of the metadata column                *)
(***************************************************************************)
EmptyObject == [k \in {} |-> NoField]

JsonMarshal(m) == <<"json", m>>

JsonUnmarshal(text) == text[2]

FormatRFC3339(t) == <<"rfc3339", t>>

Has(m, k) == k \in DOMAIN m

Put(m, k, v) == [x \in DOMAIN m \cup {k} |-> IF x = k THEN v ELSE m[x]]

\* meta["authenticated"].(bool) is true
IsAuthenticatedTrue(m) == Has(m, "authenticated") /\ m["authenticated"] = "true"

\* the marker written on every handling, without the two presence tests
MarkAuthenticatedAfresh(metadata, now) ==
    JsonMarshal(Put(Put(JsonUnmarshal(metadata), "authenticated", "true"),
                    "authenticated_at", FormatRFC3339(now)))

\* VerifyPayment lines 351-361 and handleSubscriptionAuthenticated lines 569-579
MarkAuthenticated(metadata, now) ==
    LET meta == JsonUnmarshal(metadata)
        m1 == Put(meta, "authenticated", "true")
        m2 == IF Has(m1, "authenticated_at") THEN m1
              ELSE Put(m1, "authenticated_at", FormatRFC3339(now))
    IN  IF ~IsAuthenticatedTrue(meta) THEN JsonMarshal(m2) ELSE metadata

(***************************************************************************)
(* signatures                                                              *)
(***************************************************************************)
\* hmac.New(sha256.New, secret), Write(message), Sum(nil): one digest for each
\* secret and message, and no two alike
HmacSha256Sum(secret, message) == <<"hmac-sha256", secret, message>>

\* hex.EncodeToString: the digits of the digest, a to f in lower case
HexEncodeToString(digest) == <<"hex", "lower", digest>>

HmacSha256Hex(secret, message) == HexEncodeToString(HmacSha256Sum(secret, message))

\* a comparison that takes A-F for a-f
HmacEqualFoldingCase(a, b) ==
    \/ a = b
    \/ Len(a) = 3 /\ Len(b) = 3 /\ a[1] = b[1] /\ a[3] = b[3]

\* hmac.Equal: the same length and the same bytes
HmacEqual(a, b) == a = b

\* a verifier that accepts every signature
verifySignatureAccepting(message, signature, keySecret) == TRUE

verifySignature(message, signature, keySecret) ==
    HmacEqual(signature, HexEncodeToString(HmacSha256Sum(keySecret, message)))

\* a verifier that accepts every signature
verifyWebhookSignatureAccepting(payload, signature, webhookSecret) == TRUE

verifyWebhookSignature(payload, signature, webhookSecret) ==
    HmacEqual(signature, HexEncodeToString(HmacSha256Sum(webhookSecret, payload)))

(***************************************************************************)
(* client cache, one request at a time                                     *)
(***************************************************************************)
CacheKey(config) == <<config.AppName, ":", config.Environment>>

NewClient(keyID, keySecret, serial) ==
    [key_id |-> keyID, key_secret |-> keySecret, serial |-> serial]

\* a cache that replaces the client of a tenant whose key secret was rotated
getRazorpayClientRefreshing(cache, config) ==
    IF /\ CacheKey(config) \in DOMAIN cache
       /\ cache[CacheKey(config)].key_secret = config.RazorpayKeySecret
    THEN cache
    ELSE [k \in DOMAIN cache \cup {CacheKey(config)} |->
            IF k = CacheKey(config)
            THEN NewClient(config.RazorpayKeyID, config.RazorpayKeySecret, 1)
            ELSE cache[k]]

getRazorpayClient(cache, config) ==
    IF CacheKey(config) \in DOMAIN cache
    THEN cache
    ELSE [k \in DOMAIN cache \cup {CacheKey(config)} |->
            IF k = CacheKey(config)
            THEN NewClient(config.RazorpayKeyID, config.RazorpayKeySecret, 1)
            ELSE cache[k]]

(***************************************************************************)
(* VerifyPayment                                                           *)
(***************************************************************************)
VerifyMessage(req) == <<req.RazorpayPaymentID, "|", req.RazorpaySubscriptionID>>

\* a verification that leaves the stored status alone
StatusAfterVerifyKept(status) == status

\* subscription.Status = models.SubscriptionStatusAuthenticated, whatever it was
StatusAfterVerify(status) == "authenticated"

VerifyPayment(S, C, cache, req, fetchOk, now) ==
    LET found == FindByRazorpaySubscriptionID(S, req.RazorpaySubscriptionID)
        cfg == ConfigRepoFindByID(C, found.sub.RazorpayConfigID)
        sub == [found.sub EXCEPT !.Status = StatusAfterVerify(@),
                                 !.Metadata = MarkAuthenticated(@, now)]
    IN  IF found.err # ""
        THEN [err |-> "subscription not found", subs |-> S, cache |-> cache, calls |-> <<>>]
        ELSE IF cfg.err # ""
        THEN [err |-> "failed to find razorpay config", subs |-> S, cache |-> cache,
              calls |-> <<>>]
        ELSE IF ~verifySignature(VerifyMessage(req), req.RazorpaySignature,
                                 cfg.config.RazorpayKeySecret)
        THEN [err |-> "invalid signature", subs |-> S, cache |-> cache, calls |-> <<>>]
        ELSE IF ~fetchOk
        THEN [err |-> "failed to fetch razorpay subscription", subs |-> S,
              cache |-> getRazorpayClient(cache, cfg.config),
              calls |-> <<"Subscription.Fetch">>]
        ELSE [err |-> "", subs |-> SubRepoUpdate(S, sub),
              cache |-> getRazorpayClient(cache, cfg.config),
              calls |-> <<"Subscription.Fetch">>]

VerifyPaymentStatus(err) ==
    IF err = "" THEN 200
    ELSE IF err = "invalid signature" THEN 401
    ELSE IF err = "subscription not found" THEN 404
    ELSE 500

(***************************************************************************)
(* webhook event handlers                                                  *)
(***************************************************************************)
Statuses ==
    {"created", "authenticated", "active", "paused", "cancelled", "completed", "expired"}

\* the handler without lines 551-555
AuthenticatedIgnoresNothing(sub) == FALSE

\* lines 551-555: a late authentication event must not revive a cancelled subscription
AuthenticatedIgnores(sub) == sub.Status = "cancelled"

handleSubscriptionAuthenticated(S, entity, now) ==
    LET found == FindByRazorpaySubscriptionID(S, entity.id)
        s1 == IF entity.customer_id # NoField
              THEN [found.sub EXCEPT !.RazorpayCustomerID = entity.customer_id]
              ELSE found.sub
        s2 == IF entity.start_at # Null THEN [s1 EXCEPT !.StartAt = entity.start_at] ELSE s1
        s3 == IF entity.charge_at # Null THEN [s2 EXCEPT !.NextChargeAt = entity.charge_at]
              ELSE s2
        s4 == [s3 EXCEPT !.Metadata = MarkAuthenticated(@, now)]
        s5 == IF entity.status # NoField THEN [s4 EXCEPT !.Status = entity.status] ELSE s4
    IN  IF found.err # "" THEN [err |-> found.err, subs |-> S, panic |-> FALSE, wrote |-> FALSE]
        ELSE IF AuthenticatedIgnores(found.sub)
        THEN [err |-> "", subs |-> S, panic |-> FALSE, wrote |-> FALSE]
        ELSE [err |-> "", subs |-> SubRepoUpdate(S, s5), panic |-> FALSE, wrote |-> TRUE]

\* an activated handler that marks the subscription active
handleSubscriptionActivatedMarkingActive(S, entity) ==
    LET found == FindByRazorpaySubscriptionID(S, entity.id)
        s1 == IF entity.start_at # Null
              THEN [found.sub EXCEPT !.StartAt = entity.start_at, !.Status = "active"]
              ELSE [found.sub EXCEPT !.Status = "active"]
    IN  IF found.err # "" THEN [err |-> found.err, subs |-> S, panic |-> FALSE, wrote |-> FALSE]
        ELSE [err |-> "", subs |-> SubRepoUpdate(S, s1), panic |-> FALSE, wrote |-> TRUE]

handleSubscriptionActivated(S, entity) ==
    LET found == FindByRazorpaySubscriptionID(S, entity.id)
        s1 == IF entity.start_at # Null
              THEN [found.sub EXCEPT !.StartAt = entity.start_at]
              ELSE found.sub
    IN  IF found.err # "" THEN [err |-> found.err, subs |-> S, panic |-> FALSE, wrote |-> FALSE]
        ELSE [err |-> "", subs |-> SubRepoUpdate(S, s1), panic |-> FALSE, wrote |-> TRUE]

\* line 624 without its condition
ChargedActivatesAlways(status) == TRUE

\* line 624: the first successful charge activates
ChargedActivates(status) == status = "created" \/ status = "authenticated"

\* a charged handler that drops the charge_at hint
handleSubscriptionChargedWithoutHint(S, entity) ==
    LET found == FindByRazorpaySubscriptionID(S, entity.id)
        s2 == IF ChargedActivates(found.sub.Status)
              THEN [found.sub EXCEPT !.Status = "active"]
              ELSE found.sub
    IN  IF found.err # "" THEN [err |-> found.err, subs |-> S, panic |-> FALSE, wrote |-> FALSE]
        ELSE [err |-> "", subs |-> SubRepoUpdate(S, s2), panic |-> FALSE, wrote |-> TRUE]

handleSubscriptionCharged(S, entity) ==
    LET found == FindByRazorpaySubscriptionID(S, entity.id)
        s1 == IF entity.charge_at # Null
              THEN [found.sub EXCEPT !.NextChargeAt = entity.charge_at]
              ELSE found.sub
        s2 == IF ChargedActivates(s1.Status)
              THEN [s1 EXCEPT !.Status = "active"]
              ELSE s1
    IN  IF found.err # "" THEN [err |-> found.err, subs |-> S, panic |-> FALSE, wrote |-> FALSE]
        ELSE [err |-> "", subs |-> SubRepoUpdate(S, s2), panic |-> FALSE, wrote |-> TRUE]

handleSubscriptionPending(S, entity) ==
    LET parsed == UUIDMustParse(entity.id)
    IN  IF parsed.panic
        THEN [err |-> "panic: uuid: Parse", subs |-> S, panic |-> TRUE, wrote |-> FALSE]
        ELSE [err |-> "", subs |-> SubRepoUpdateStatus(S, parsed.id, "created"),
              panic |-> FALSE, wrote |-> TRUE]

\* halted, paused, resumed: load the row, set the status, save
SetStatusByGatewayID(S, entity, status) ==
    LET found == FindByRazorpaySubscriptionID(S, entity.id)
    IN  IF found.err # "" THEN [err |-> found.err, subs |-> S, panic |-> FALSE, wrote |-> FALSE]
        ELSE [err |-> "",
              subs |-> SubRepoUpdate(S, [found.sub EXCEPT !.Status = status]),
              panic |-> FALSE, wrote |-> TRUE]

handleSubscriptionHalted(S, entity) == SetStatusByGatewayID(S, entity, "expired")

handleSubscriptionCancelled(S, entity) ==
    LET found == FindByRazorpaySubscriptionID(S, entity.id)
        s1 == [found.sub EXCEPT !.Status = "cancelled"]
        s2 == IF entity.end_at # Null THEN [s1 EXCEPT !.EndAt = entity.end_at] ELSE s1
    IN  IF found.err # "" THEN [err |-> found.err, subs |-> S, panic |-> FALSE, wrote |-> FALSE]
        ELSE [err |-> "", subs |-> SubRepoUpdate(S, s2), panic |-> FALSE, wrote |-> TRUE]

\* a completed handler that stores expired
handleSubscriptionCompletedAsExpired(S, entity) ==
    LET found == FindByRazorpaySubscriptionID(S, entity.id)
    IN  IF found.err # "" THEN [err |-> found.err, subs |-> S, panic |-> FALSE, wrote |-> FALSE]
        ELSE [err |-> "",
              subs |-> SubRepoUpdate(S, [found.sub EXCEPT !.Status = "expired"]),
              panic |-> FALSE, wrote |-> TRUE]

handleSubscriptionCompleted(S, entity) ==
    LET found == FindByRazorpaySubscriptionID(S, entity.id)
        s1 == [found.sub EXCEPT !.Status = "completed"]
        s2 == IF entity.ended_at # Null THEN [s1 EXCEPT !.EndAt = entity.ended_at] ELSE s1
    IN  IF found.err # "" THEN [err |-> found.err, subs |-> S, panic |-> FALSE, wrote |-> FALSE]
        ELSE [err |-> "", subs |-> SubRepoUpdate(S, s2), panic |-> FALSE, wrote |-> TRUE]

handleSubscriptionPaused(S, entity) == SetStatusByGatewayID(S, entity, "paused")

\* a resumed handler that resumes a paused subscription and no other
handleSubscriptionResumedIfPaused(S, entity) ==
    LET found == FindByRazorpaySubscriptionID(S, entity.id)
    IN  IF found.err = "" /\ found.sub.Status # "paused"
        THEN [err |-> "", subs |-> S, panic |-> FALSE, wrote |-> FALSE]
        ELSE SetStatusByGatewayID(S, entity, "active")

handleSubscriptionResumed(S, entity) == SetStatusByGatewayID(S, entity, "active")

(***************************************************************************)
(* HandleWebhook                                                           *)
(***************************************************************************)
ErrInvalidWebhookSignature == "invalid webhook signature"

\* a dispatcher that refuses the event types it does not know
UnknownEventRefused(S) ==
    [err |-> "unknown webhook event", subs |-> S, panic |-> FALSE, wrote |-> FALSE]

\* default: return nil
UnknownEvent(S) == [err |-> "", subs |-> S, panic |-> FALSE, wrote |-> FALSE]

\* wrote: the handler issued a write to the subscriptions table
DispatchEvent(S, body, now) ==
    CASE body.event = "subscription.authenticated" ->
            handleSubscriptionAuthenticated(S, body.entity, now)
      [] body.event = "subscription.activated" -> handleSubscriptionActivated(S, body.entity)
      [] body.event = "subscription.charged" -> handleSubscriptionCharged(S, body.entity)
      [] body.event = "subscription.pending" -> handleSubscriptionPending(S, body.entity)
      [] body.event = "subscription.halted" -> handleSubscriptionHalted(S, body.entity)
      [] body.event = "subscription.cancelled" -> handleSubscriptionCancelled(S, body.entity)
      [] body.event = "subscription.completed" -> handleSubscriptionCompleted(S, body.entity)
      [] body.event = "subscription.paused" -> handleSubscriptionPaused(S, body.entity)
      [] body.event = "subscription.resumed" -> handleSubscriptionResumed(S, body.entity)
      [] OTHER -> UnknownEvent(S)

HandleWebhook(S, C, body, signature, now) ==
    LET found == FindByRazorpaySubscriptionID(S, body.entity.id)
        cfg == ConfigRepoFindByID(C, found.sub.RazorpayConfigID)
    IN  IF body.entity.id = NoField \/ body.entity.id = ""
        THEN [err |-> "subscription ID not found in webhook payload", subs |-> S,
              panic |-> FALSE, wrote |-> FALSE]
        ELSE IF found.err # ""
        THEN [err |-> "failed to find subscription", subs |-> S, panic |-> FALSE, wrote |-> FALSE]
        ELSE IF cfg.err # ""
        THEN [err |-> "failed to find razorpay config", subs |-> S, panic |-> FALSE,
              wrote |-> FALSE]
        ELSE IF ~verifyWebhookSignature(body, signature, cfg.config.RazorpayWebhookSecret)
        THEN [err |-> ErrInvalidWebhookSignature, subs |-> S, panic |-> FALSE, wrote |-> FALSE]
        ELSE DispatchEvent(S, body, now)

\* SubscriptionHandler.HandleWebhook behind gin's Recovery middleware
HandleWebhookStatus(r) ==
    IF r.panic THEN 500
    ELSE IF r.err = "" THEN 200
    ELSE IF r.err = ErrInvalidWebhookSignature THEN 401
    ELSE 500

(***************************************************************************)
(* CancelSubscription                                                      *)
(***************************************************************************)
\* a cancel that stores cancelled whatever the gateway answers
CancelSubscriptionEagerly(S, C, cache, id, cancelOk) ==
    LET found == SubRepoFindByID(S, id)
    IN  IF found.err # ""
        THEN [err |-> "subscription not found", subs |-> S, cache |-> cache, calls |-> <<>>]
        ELSE [err |-> IF cancelOk THEN "" ELSE "failed to cancel razorpay subscription",
              subs |-> SubRepoUpdate(S, [found.sub EXCEPT !.Status = "cancelled"]),
              cache |-> cache,
              calls |-> <<"Subscription.Cancel">>]

CancelSubscription(S, C, cache, id, cancelOk) ==
    LET found == SubRepoFindByID(S, id)
        cfg == ConfigRepoFindByID(C, found.sub.RazorpayConfigID)
    IN  IF found.err # ""
        THEN [err |-> "subscription not found", subs |-> S, cache |-> cache, calls |-> <<>>]
        ELSE IF cfg.err # ""
        THEN [err |-> "failed to find razorpay config", subs |-> S, cache |-> cache,
              calls |-> <<>>]
        ELSE IF ~cancelOk
        THEN [err |-> "failed to cancel razorpay subscription", subs |-> S,
              cache |-> getRazorpayClient(cache, cfg.config),
              calls |-> <<"Subscription.Cancel">>]
        ELSE [err |-> "",
              subs |-> SubRepoUpdate(S, [found.sub EXCEPT !.Status = "cancelled"]),
              cache |-> getRazorpayClient(cache, cfg.config),
              calls |-> <<"Subscription.Cancel">>]

(***************************************************************************)
(* CreateCheckoutURL                                                       *)
(***************************************************************************)
\* the gateway's plans: Plan.Fetch(id) = {item: {amount, currency}, period}
PlanCatalog ==
    [ plan_m |-> [amount |-> 49900, currency |-> "INR", period |-> "monthly"],
      plan_w |-> [amount |-> 9900, currency |-> "INR", period |-> "weekly"],
      plan_d |-> [amount |-> 500, currency |-> "INR", period |-> "daily"],
      plan_y |-> [amount |-> 499900, currency |-> "INR", period |-> "yearly"],
      plan_q |-> [amount |-> 129900, currency |-> "INR", period |-> "quarterly"] ]

\* strings.TrimSpace on the plan ids the requests carry
TrimSpace(s) ==
    CASE s = " plan_m " -> "plan_m"
      [] s = "plan_y " -> "plan_y"
      [] s = "   " -> ""
      [] OTHER -> s

PeriodDays(planPeriod) ==
    CASE planPeriod = "daily" -> 1
      [] planPeriod = "weekly" -> 7
      [] planPeriod = "monthly" -> 30
      [] planPeriod = "yearly" -> 365
      [] OTHER -> 30

\* lines 124-133
InitialChargeAmountPaise(req) ==
    IF req.InitialChargeAmount = Null THEN 100
    ELSE IF req.InitialChargeAmount[1] <= 0 THEN 0
    ELSE req.InitialChargeAmount[1] * 100

\* lines 136-141
FirstChargeDelayDays(req) ==
    IF req.FirstChargeDelayDays # Null /\ req.FirstChargeDelayDays[1] >= 0
    THEN req.FirstChargeDelayDays[1]
    ELSE 1

\* lines 146-147
BothExplicitlyZero(req) ==
    /\ req.InitialChargeAmount # Null
    /\ req.FirstChargeDelayDays # Null
    /\ req.InitialChargeAmount[1] = 0
    /\ req.FirstChargeDelayDays[1] = 0

\* lines 126-141 alone: the amounts before the override
ChargeAndDelayAsRequested(req, planID) ==
    [amount |-> InitialChargeAmountPaise(req), delay |-> FirstChargeDelayDays(req)]

\* lines 144-172, given the plan fetched
ChargeAndDelay(req, planID) ==
    IF BothExplicitlyZero(req)
    THEN [amount |-> PlanCatalog[planID].amount,
          delay |-> PeriodDays(PlanCatalog[planID].period)]
    ELSE [amount |-> InitialChargeAmountPaise(req), delay |-> FirstChargeDelayDays(req)]

\* lines 176-241: the payload of Subscription.Create; now is time.Now().Unix()
SubscriptionData(req, planID, cd, now) ==
    [plan_id |-> planID,
     quantity |-> IF req.Quantity > 0 THEN req.Quantity ELSE 1,
     customer_notify |-> FALSE,
     addons |-> IF cd.amount > 0
                THEN <<[item |-> [name |-> "Initial Charge", amount |-> cd.amount,
                                  currency |-> "INR"]]>>
                ELSE Null,
     total_count |-> IF req.TotalCount > 0 THEN req.TotalCount ELSE 120,
     expire_by |-> now + 7 * 24 * 3600,
     start_at |-> IF req.StartAt # Null THEN req.StartAt[1]
                  ELSE IF cd.delay > 0 THEN now + cd.delay * 24 * 3600
                  ELSE now + 3600,
     notes |-> req.Notes]

\* lines 107-109 left out
ConfigIsActiveUnchecked(config) == TRUE

\* lines 107-109
ConfigIsActive(config) == config.IsActive

\* lines 90-105
ResolveConfig(C, req) ==
    IF req.ClientID # Null
    THEN ConfigRepoFindByID(C, req.ClientID[1])
    ELSE ConfigRepoFindByAppNameAndEnv(C, req.AppName, GetRazorpayEnvironment)

PlanExists(planID) == planID \in DOMAIN PlanCatalog

\* the calls made when a step after Subscription.Create fails, with a cancel to undo it
CallsWhenLaterStepFailsUndoing(calls0) ==
    calls0 \o <<"Subscription.Create", "Plan.Fetch", "Subscription.Cancel">>

\* lines 269-272 and 301-303: the error is returned, the gateway is not called again
CallsWhenLaterStepFails(calls0) == calls0 \o <<"Subscription.Create", "Plan.Fetch">>

\* gw: the answers a request gets: saveOk (the database accepts the insert),
\* planUp1, up, planUp (the early Plan.Fetch, Subscription.Create
\* and the later Plan.Fetch succeed), id and status (what Subscription.Create reports)
CreateCheckoutURL(S, C, cache, req, gw, now) ==
    LET cfg == ResolveConfig(C, req)
        planID == TrimSpace(req.PlanID)
        cache1 == getRazorpayClient(cache, cfg.config)
        early == BothExplicitlyZero(req)
        calls0 == IF early THEN <<"Plan.Fetch">> ELSE <<>>
        cd == ChargeAndDelay(req, planID)
        data == SubscriptionData(req, planID, cd, now)
        plan == PlanCatalog[planID]
        row == [ID |-> UUIDNil,
                RazorpayConfigID |-> cfg.config.ID,
                RazorpaySubscriptionID |-> gw.id,
                RazorpayCustomerID |-> "",
                RazorpayPlanID |-> planID,
                Status |-> gw.status,
                Amount |-> plan.amount,
                Frequency |-> plan.period,
                StartAt |-> Null,
                EndAt |-> Null,
                NextChargeAt |-> Null,
                Metadata |-> IF req.Notes # Null THEN JsonMarshal(req.Notes[1])
                             ELSE JsonMarshal(EmptyObject)]
        saved == SubRepoCreate(S, row)
        Fail(e, c, k, sent) ==
            [err |-> e, subs |-> S, cache |-> c, calls |-> k, sent |-> sent, id |-> UUIDNil]
    IN  IF cfg.err # "" THEN Fail("failed to find razorpay config", cache, <<>>, <<>>)
        ELSE IF ~ConfigIsActive(cfg.config)
        THEN Fail("razorpay config is not active", cache, <<>>, <<>>)
        ELSE IF planID = "" THEN Fail("plan_id is required", cache1, <<>>, <<>>)
        ELSE IF early /\ (~gw.planUp1 \/ ~PlanExists(planID))
        THEN Fail("failed to fetch plan", cache1, calls0, <<>>)
        ELSE IF ~PlanExists(planID)
        THEN Fail("failed to create razorpay subscription: The id provided does not exist",
                  cache1, Append(calls0, "Subscription.Create"), <<data>>)
        ELSE IF ~gw.up
        THEN Fail("failed to create razorpay subscription", cache1,
                  Append(calls0, "Subscription.Create"), <<data>>)
        ELSE IF ~gw.planUp
        THEN Fail("failed to fetch plan", cache1, CallsWhenLaterStepFails(calls0), <<data>>)
        ELSE IF saved.err # "" \/ ~gw.saveOk
        THEN Fail("failed to save subscription", cache1, CallsWhenLaterStepFails(calls0),
                  <<data>>)
        ELSE [err |-> "", subs |-> saved.subs, cache |-> cache1,
              calls |-> calls0 \o <<"Subscription.Create", "Plan.Fetch">>,
              sent |-> <<data>>, id |-> saved.subs[Len(saved.subs)].ID]

\* SubscriptionHandler.CreateCheckoutURL
Contains(errMsg, substr) ==
    substr = "does not exist" /\
    errMsg = "failed to create razorpay subscription: The id provided does not exist"

CreateCheckoutStatus(err) ==
    IF err = "" THEN 201
    ELSE IF Contains(err, "does not exist") THEN 400
    ELSE 500

(***************************************************************************)
(* Requests and gateway answers                                            *)
(***************************************************************************)
CheckoutReq(clientID, app, plan, zero, notes) ==
    [ClientID |-> clientID, AppName |-> app, PlanID |-> plan,
     InitialChargeAmount |-> IF zero THEN <<0>> ELSE Null,
     FirstChargeDelayDays |-> IF zero THEN <<0>> ELSE Null,
     TotalCount |-> 0, StartAt |-> Null, Quantity |-> 0, Notes |-> notes]

\* the gateway answers every call and reports id
GatewayOk(gid) ==
    [planUp1 |-> TRUE, up |-> TRUE, planUp |-> TRUE, id |-> gid, status |-> "created",
     saveOk |-> TRUE]

\* Subscription.Create fails
GatewayDown(gid) == [GatewayOk(gid) EXCEPT !.up = FALSE]

\* Subscription.Create succeeds and the Plan.Fetch after it fails
GatewayPlanDown(gid) == [GatewayOk(gid) EXCEPT !.planUp = FALSE]

\* every gateway call succeeds and the database refuses the insert
StoreDown(gid) == [GatewayOk(gid) EXCEPT !.saveOk = FALSE]

SigningSecrets(known) == known \cup {"forged"}

VerifyReq(gid, pid, secret) ==
    [RazorpaySubscriptionID |-> gid,
     RazorpayPaymentID |-> pid,
     RazorpaySignature |-> HmacSha256Hex(secret, <<pid, "|", gid>>)]

Events ==
    {"subscription.authenticated", "subscription.activated", "subscription.charged",
     "subscription.pending", "subscription.halted", "subscription.cancelled",
     "subscription.completed", "subscription.paused", "subscription.resumed",
     "payment.captured"}

\* payload.subscription.entity as the gateway sends it: the id alone, or every hint
BareEntity(gid) ==
    [id |-> gid, status |-> NoField, customer_id |-> NoField, start_at |-> Null,
     charge_at |-> Null, end_at |-> Null, ended_at |-> Null]

FullEntity(gid) ==
    [id |-> gid, status |-> "authenticated", customer_id |-> "cust_1", start_at |-> <<100>>,
     charge_at |-> <<200>>, end_at |-> <<300>>, ended_at |-> <<400>>]

BareBodies(gids) == [event : Events, entity : {BareEntity(g) : g \in gids}]

FullBodies(gids) == [event : Events, entity : {FullEntity(g) : g \in gids}]

\* time.Now() is read by the subscription.authenticated handler alone
ClockReadings(body) ==
    IF body.event = "subscription.authenticated" THEN Times ELSE {1}

(***************************************************************************)
(* The server, one request at a time                                       *)
(***************************************************************************)
Idle ==
    [op |-> "none", event |-> "", err |-> "", http |-> 0, calls |-> <<>>, streak |-> 0,
     id |-> UUIDNil]

\* streak: 2 when the request before it was the same operation (and event) and both succeeded;
\* id: the subscription_id of a checkout response
Log(op, event, err, http, calls) ==
    [op |-> op, event |-> event, err |-> err, http |-> http, calls |-> calls,
     streak |-> IF last.op = op /\ last.event = event /\ last.err = "" /\ err = ""
                THEN 2 ELSE 1,
     id |-> UUIDNil]

InitCacheSide ==
    /\ gr = <<>>
    /\ rw = [readers |-> {}, writer |-> 0]
    /\ built = <<>>

InitStudySide ==
    /\ ckReq = Null
    /\ ckSent = Null
    /\ pages = Null
    /\ twin = Null
    /\ sigCheck = Null
    /\ handlers = Null

Init ==
    /\ configs = <<>>
    /\ subs = <<>>
    /\ clientCache = <<>>
    /\ last = Idle
    /\ InitCacheSide
    /\ InitStudySide

CreateConfigStep(req) ==
    LET r == CreateRazorpayConfig(configs, req)
    IN  /\ Len(r.configs) <= MaxConfigs
        /\ configs' = r.configs
        /\ last' = Log("CreateRazorpayConfig", "", r.err, CreateConfigStatus(r.err), <<>>)
        /\ UNCHANGED <<subs, clientCache, gr, rw, built, ckReq, ckSent, pages, twin, sigCheck,
                       handlers>>

DoCreateConfig(reqs) == \E req \in reqs : CreateConfigStep(req)

DoUpdateConfig(reqs) ==
    \E id \in 1..MaxConfigs, req \in reqs :
        LET r == UpdateRazorpayConfig(configs, id, req)
        IN  /\ configs' = r.configs
            /\ last' = Log("UpdateRazorpayConfig", "", r.err, NotFoundStatus(r.err), <<>>)
            /\ UNCHANGED <<subs, clientCache, gr, rw, built, ckReq, ckSent, pages, twin, sigCheck,
                           handlers>>

DoDeleteConfig ==
    \E id \in 1..MaxConfigs :
        LET r == DeleteRazorpayConfig(configs, id)
        IN  /\ configs' = r.configs
            /\ last' = Log("DeleteRazorpayConfig", "", r.err, NotFoundStatus(r.err), <<>>)
            /\ UNCHANGED <<subs, clientCache, gr, rw, built, ckReq, ckSent, pages, twin, sigCheck,
                           handlers>>

CheckoutStep(req, gw) ==
    LET r == CreateCheckoutURL(subs, configs, clientCache, req, gw, 1)
    IN  /\ Len(r.subs) <= MaxSubs
        /\ subs' = r.subs
        /\ clientCache' = r.cache
        /\ last' = [Log("CreateCheckoutURL", "", r.err, CreateCheckoutStatus(r.err), r.calls)
                        EXCEPT !.id = r.id]
        /\ UNCHANGED <<configs, gr, rw, built, ckReq, ckSent, pages, twin, sigCheck, handlers>>

DoCheckout(reqs, answers) == \E req \in reqs, gw \in answers : CheckoutStep(req, gw)

VerifyStep(req, fetchOk, now) ==
    LET r == VerifyPayment(subs, configs, clientCache, req, fetchOk, now)
    IN  /\ subs' = r.subs
        /\ clientCache' = r.cache
        /\ last' = Log("VerifyPayment", "", r.err, VerifyPaymentStatus(r.err), r.calls)
        /\ UNCHANGED <<configs, gr, rw, built, ckReq, ckSent, pages, twin, sigCheck, handlers>>

DoVerifyPayment(reqs) ==
    \E req \in reqs, fetchOk \in BOOLEAN, now \in Times : VerifyStep(req, fetchOk, now)

\* the request is signed with secret k
WebhookStep(body, k, now) ==
    LET r == HandleWebhook(subs, configs, body, HmacSha256Hex(k, body), now)
    IN  /\ subs' = r.subs
        /\ last' = Log("HandleWebhook", body.event, r.err, HandleWebhookStatus(r), <<>>)
        /\ UNCHANGED <<configs, clientCache, gr, rw, built, ckReq, ckSent, pages, twin, sigCheck,
                       handlers>>

DoWebhook(bodies, secrets) ==
    \E body \in bodies, k \in secrets :
        \E now \in ClockReadings(body) : WebhookStep(body, k, now)

CancelStatus(err) ==
    IF err = "" THEN 200
    ELSE IF err = "subscription not found" THEN 404
    ELSE 500

CancelStep(id, cancelOk) ==
    LET r == CancelSubscription(subs, configs, clientCache, id, cancelOk)
    IN  /\ subs' = r.subs
        /\ clientCache' = r.cache
        /\ last' = Log("CancelSubscription", "", r.err, CancelStatus(r.err), r.calls)
        /\ UNCHANGED <<configs, gr, rw, built, ckReq, ckSent, pages, twin, sigCheck, handlers>>

DoCancel == \E id \in 1..MaxSubs, cancelOk \in BOOLEAN : CancelStep(id, cancelOk)

(***************************************************************************)
(* Spec: one tenant, one gateway subscription id, every event with and     *)
(* without its hints                                                       *)
(***************************************************************************)
Cred1 == [RazorpayKeyID |-> "kid1", RazorpayKeySecret |-> "ks1", RazorpayWebhookSecret |-> "ws1"]

OneTenantReqs ==
    {[AppName |-> "app1", Environment |-> "test", cred |-> Cred1, IsActive |-> NoField]}

LifeCheckoutReqs ==
    {CheckoutReq(Null, "app1", "plan_m", FALSE, n) :
        n \in {Null, <<[authenticated |-> "true"]>>}}

LifeVerifyReqs == {VerifyReq("sub_A", "pay_1", k) : k \in {"ks1", "forged"}}

\* every event for the stored id, and a payment event that names no subscription
LifeBodies ==
    BareBodies({"sub_A"}) \cup FullBodies({"sub_A"})
        \cup {[event |-> "payment.captured", entity |-> BareEntity(NoField)]}

Next ==
    \/ DoCreateConfig(OneTenantReqs)
    \/ DoCheckout(LifeCheckoutReqs, {GatewayOk("sub_A"), GatewayDown("sub_A")})
    \/ DoVerifyPayment(LifeVerifyReqs)
    \/ DoWebhook(LifeBodies, {"ws1", "forged"})
    \/ DoCancel

Spec == Init /\ [][Next]_vars

(***************************************************************************)
(* SpecTrust: the tenant's config is created inactive or active, rotated,  *)
(* deactivated and soft-deleted while requests signed under either         *)
(* tenant's secrets arrive                                                 *)
(***************************************************************************)
TrustConfigReqs ==
    [AppName : {"app1"}, Environment : {"test"}, cred : Credentials,
     IsActive : {NoField, "false"}]

TrustUpdateReqs ==
    {[hasCred |-> TRUE, cred |-> c, IsActive |-> NoField] : c \in Credentials}
        \cup {[hasCred |-> FALSE, cred |-> Cred1, IsActive |-> a] : a \in {"true", "false"}}

TrustCheckoutReqs ==
    {CheckoutReq(id, app, plan, FALSE, Null) :
        id \in {Null, <<1>>, <<2>>}, app \in {"app1", "app2"}, plan \in {" plan_m ", "   "}}

TrustVerifyReqs == {VerifyReq("sub_A", "pay_1", k) : k \in SigningSecrets(KeySecrets)}

TrustAnswers == {GatewayOk("sub_A"), GatewayDown("sub_A")}

\* every event for the stored id, and one body that carries no subscription id
TrustBodies ==
    BareBodies({"sub_A"}) \cup {b \in BareBodies({NoField}) : b.event = "subscription.charged"}

TrustSecrets == SigningSecrets(WebhookSecrets)

NextTrust ==
    \/ DoCreateConfig(TrustConfigReqs)
    \/ DoUpdateConfig(TrustUpdateReqs)
    \/ DoDeleteConfig
    \/ DoCheckout(TrustCheckoutReqs, TrustAnswers)
    \/ DoVerifyPayment(TrustVerifyReqs)
    \/ DoWebhook(TrustBodies, TrustSecrets)
    \/ DoCancel

SpecTrust == Init /\ [][NextTrust]_vars

(***************************************************************************)
(* SpecStore: one tenant, two gateway subscription ids, which the gateway  *)
(* may report more than once                                               *)
(***************************************************************************)
StoreVerifyReqs == {VerifyReq(g, "pay_1", "ks1") : g \in GatewayIds}

StoreCheckoutReqs == {CheckoutReq(Null, "app1", "plan_m", FALSE, Null)}

StoreAnswers == {GatewayOk(g) : g \in GatewayIds}

\* Subscription.Create succeeds and a later step fails
OrphaningAnswers == {GatewayPlanDown(g) : g \in GatewayIds} \cup {StoreDown(g) : g \in GatewayIds}

NextStore ==
    \/ DoCreateConfig(OneTenantReqs)
    \/ DoCheckout(StoreCheckoutReqs, StoreAnswers \cup OrphaningAnswers)
    \/ DoVerifyPayment(StoreVerifyReqs)
    \/ DoWebhook(BareBodies(GatewayIds), {"ws1"})
    \/ DoCancel

SpecStore == Init /\ [][NextStore]_vars

(***************************************************************************)
(* SpecReport: one tenant, one gateway subscription id; the gateway reports *)
(* a status of its own choosing in the Subscription.Create response and in *)
(* the subscription entity of a webhook                                    *)
(***************************************************************************)
\* "halted" and "pending" are statuses of the gateway's own subscription entity
ReportedStatuses == {"authenticated", "expired", "halted"}

GatewayReporting(gid, status) == [GatewayOk(gid) EXCEPT !.status = status]

ReportingBodies(gid) ==
    [event : Events, entity : {[BareEntity(gid) EXCEPT !.status = st] : st \in ReportedStatuses}]

ReportAnswers ==
    {GatewayOk("sub_A"), GatewayReporting("sub_A", "expired"),
     GatewayReporting("sub_A", "pending")}

NextReport ==
    \/ DoCreateConfig(OneTenantReqs)
    \/ DoCheckout(StoreCheckoutReqs, ReportAnswers)
    \/ DoVerifyPayment(LifeVerifyReqs)
    \/ DoWebhook(BareBodies({"sub_A"}) \cup ReportingBodies("sub_A"), {"ws1", "forged"})
    \/ DoCancel

SpecReport == Init /\ [][NextReport]_vars

(***************************************************************************)
(* SpecPage: a client walks the pages of GET /razorpay-configs, from page 1 *)
(* to the total_pages the responses report, over a store of up to          *)
(* MaxListed configs of which some are inactive or soft-deleted            *)
(***************************************************************************)
MaxListed == 11

\* page_size as the query string gives it; an absent value is 10 and a
\* non-numeric one is 0 (the handler drops the strconv.Atoi error)
PageSizes == {-1, 0, 1, 2, 3, 10, 100, 101}

StoreShapes == {"all active", "odd inactive", "second deleted"}

ListedApp(i) == "app" \o ToString(i)

\* the store after n configs were created and, by shape, deactivated or deleted
RECURSIVE ListedStore(_, _)
ListedStore(n, shape) ==
    IF n = 0 THEN <<>>
    ELSE LET created == CreateRazorpayConfig(ListedStore(n - 1, shape),
                            [AppName |-> ListedApp(n), Environment |-> "test",
                             cred |-> Cred1, IsActive |-> NoField]).configs
         IN  IF shape = "odd inactive" /\ n % 2 = 1
             THEN UpdateRazorpayConfig(created, n,
                      [hasCred |-> FALSE, cred |-> Cred1, IsActive |-> "false"]).configs
             ELSE IF shape = "second deleted" /\ n = 2
             THEN DeleteRazorpayConfig(created, n).configs
             ELSE created

InitPage ==
    /\ \E n \in 0..MaxListed, shape \in StoreShapes : configs = ListedStore(n, shape)
    /\ subs = <<>>
    /\ clientCache = <<>>
    /\ last = Idle
    /\ InitCacheSide
    /\ ckReq = Null
    /\ ckSent = Null
    /\ \E p \in PageSizes, a \in BOOLEAN :
           pages = [pageSize |-> p, activeOnly |-> a, fetched |-> 0, data |-> <<>>,
                    total |-> 0, totalPages |-> 0]
    /\ twin = Null
    /\ sigCheck = Null
    /\ handlers = Null

\* the client asks for the next page as long as the last response said there is one
FetchPage ==
    LET r == GetAllRazorpayConfigs(configs, pages.fetched + 1, pages.pageSize,
                                   pages.activeOnly)
    IN  /\ pages.fetched = 0 \/ pages.fetched < pages.totalPages
        /\ pages' = [pages EXCEPT !.fetched = @ + 1,
                                  !.data = @ \o r.Data,
                                  !.total = r.Total,
                                  !.totalPages = r.TotalPages]
        /\ last' = Log("GetAllRazorpayConfigs", "", "", 200, <<>>)
        /\ UNCHANGED <<configs, subs, clientCache, gr, rw, built, ckReq, ckSent, twin, sigCheck,
                       handlers>>

NextPage == FetchPage

SpecPage == InitPage /\ [][NextPage]_vars

(***************************************************************************)
(* SpecTwin: every config operation is served by two stores at once.  The  *)
(* requests are the same except for the credentials a create or update     *)
(* carries, so the stores differ in the stored credentials and in nothing  *)
(* else.                                                                   *)
(***************************************************************************)
InitTwin ==
    /\ configs = <<>>
    /\ subs = <<>>
    /\ clientCache = <<>>
    /\ last = Idle
    /\ InitCacheSide
    /\ ckReq = Null
    /\ ckSent = Null
    /\ pages = Null
    /\ twin = [configs |-> <<>>, resp |-> Null, resp2 |-> Null]
    /\ sigCheck = Null
    /\ handlers = Null

\* both stores answered: resp is the first store's response, resp2 the second's
TwinServed(op, C1, C2, r1, r2) ==
    /\ Len(C1) <= MaxConfigs
    /\ configs' = C1
    /\ twin' = [configs |-> C2, resp |-> <<r1>>, resp2 |-> <<r2>>]
    /\ last' = Log(op, "", IF r1.status < 400 THEN "" ELSE r1.body.error, r1.status, <<>>)
    /\ UNCHANGED <<subs, clientCache, gr, rw, built, ckReq, ckSent, pages, sigCheck, handlers>>

TwinCreate ==
    \E req \in CreateConfigReqs, cred2 \in Credentials :
        LET req2 == [req EXCEPT !.cred = cred2]
        IN  TwinServed("CreateRazorpayConfig",
                       CreateRazorpayConfig(configs, req).configs,
                       CreateRazorpayConfig(twin.configs, req2).configs,
                       HandleCreateRazorpayConfig(configs, req),
                       HandleCreateRazorpayConfig(twin.configs, req2))

TwinUpdate ==
    \E id \in 1..MaxConfigs, req \in UpdateConfigReqs, cred2 \in Credentials :
        LET req2 == [req EXCEPT !.cred = cred2]
        IN  TwinServed("UpdateRazorpayConfig",
                       UpdateRazorpayConfig(configs, id, req).configs,
                       UpdateRazorpayConfig(twin.configs, id, req2).configs,
                       HandleUpdateRazorpayConfig(configs, id, req),
                       HandleUpdateRazorpayConfig(twin.configs, id, req2))

TwinDelete ==
    \E id \in 1..MaxConfigs :
        TwinServed("DeleteRazorpayConfig",
                   DeleteRazorpayConfig(configs, id).configs,
                   DeleteRazorpayConfig(twin.configs, id).configs,
                   HandleDeleteRazorpayConfig(configs, id),
                   HandleDeleteRazorpayConfig(twin.configs, id))

TwinGetByID ==
    \E id \in 1..MaxConfigs :
        TwinServed("GetRazorpayConfigByID", configs, twin.configs,
                   HandleGetRazorpayConfigByID(configs, id),
                   HandleGetRazorpayConfigByID(twin.configs, id))

TwinGetByAppNameAndEnv ==
    \E app \in {"app1", NoField}, env \in {"test", "live", "prod", NoField} :
        TwinServed("GetRazorpayConfigByAppNameAndEnv", configs, twin.configs,
                   HandleGetRazorpayConfigByAppNameAndEnv(configs, app, env),
                   HandleGetRazorpayConfigByAppNameAndEnv(twin.configs, app, env))

TwinGetAll ==
    \E page \in 1..2, pageSize \in {1, 10}, activeOnly \in BOOLEAN :
        TwinServed("GetAllRazorpayConfigs", configs, twin.configs,
                   HandleGetAllRazorpayConfigs(configs, page, pageSize, activeOnly),
                   HandleGetAllRazorpayConfigs(twin.configs, page, pageSize, activeOnly))

NextTwin ==
    \/ TwinCreate
    \/ TwinUpdate
    \/ TwinDelete
    \/ TwinGetByID
    \/ TwinGetByAppNameAndEnv
    \/ TwinGetAll

SpecTwin == InitTwin /\ [][NextTwin]_vars

(***************************************************************************)
(* SpecVerify: verifySignature and verifyWebhookSignature as functions of  *)
(* their arguments.  The signature offered is the text derived from the    *)
(* digest of some message under some secret, which may or may not be the   *)
(* message and the secret of the call; sigCheck remembers how it was made. *)
(***************************************************************************)
MaxCalls == 2        \* calls of a verifier on the same arguments

VerifySecrets == {"", "ks1", "ks2"}

\* razorpayPaymentID + "|" + razorpaySubscriptionID, and the empty message
SignedMessages ==
    {<<>>} \cup {VerifyMessage([RazorpayPaymentID |-> p, RazorpaySubscriptionID |-> g]) :
                    p \in {"pay_1", "pay_2"}, g \in {"sub_A", "sub_B"}}

\* raw request bodies
SignedPayloads ==
    {[event |-> e, entity |-> BareEntity(g)] :
        e \in {"subscription.activated", "subscription.halted"}, g \in {"sub_A", "sub_B"}}

SignatureForms == {"lower", "upper", "truncated", "empty"}

\* what a sender can put into the signature field: the lower-case hex text of
\* a digest, the same digits in upper case, the text cut short, or nothing
SignatureText(secret, message, form) ==
    LET hex == HexEncodeToString(HmacSha256Sum(secret, message))
    IN  CASE form = "lower" -> hex
          [] form = "upper" -> [hex EXCEPT ![2] = "upper"]
          [] form = "truncated" -> SubSeq(hex, 1, 2)
          [] OTHER -> <<>>

VerifyArguments(fn, messages) ==
    [fn : {fn}, message : messages, secret : VerifySecrets,
     over : messages, by : VerifySecrets, form : SignatureForms]

InitVerify ==
    /\ configs = ListedStore(1, "all active")
    /\ subs = <<>>
    /\ clientCache = <<>>
    /\ last = Idle
    /\ InitCacheSide
    /\ ckReq = Null
    /\ ckSent = Null
    /\ pages = Null
    /\ twin = Null
    /\ handlers = Null
    /\ \E a \in VerifyArguments("verifySignature", SignedMessages)
                \cup VerifyArguments("verifyWebhookSignature", SignedPayloads) :
           sigCheck = [fn |-> a.fn, message |-> a.message, secret |-> a.secret,
                       signature |-> SignatureText(a.by, a.over, a.form),
                       over |-> a.over, by |-> a.by, form |-> a.form, results |-> <<>>]

CallVerifySignature ==
    /\ sigCheck.fn = "verifySignature"
    /\ Len(sigCheck.results) < MaxCalls
    /\ sigCheck' = [sigCheck EXCEPT !.results =
                       Append(@, verifySignature(sigCheck.message, sigCheck.signature,
                                                 sigCheck.secret))]
    /\ UNCHANGED <<configs, subs, clientCache, last, gr, rw, built, ckReq, ckSent,
                   pages, twin, handlers>>

CallVerifyWebhookSignature ==
    /\ sigCheck.fn = "verifyWebhookSignature"
    /\ Len(sigCheck.results) < MaxCalls
    /\ sigCheck' = [sigCheck EXCEPT !.results =
                       Append(@, verifyWebhookSignature(sigCheck.message, sigCheck.signature,
                                                        sigCheck.secret))]
    /\ UNCHANGED <<configs, subs, clientCache, last, gr, rw, built, ckReq, ckSent,
                   pages, twin, handlers>>

NextVerify ==
    \/ CallVerifySignature
    \/ CallVerifyWebhookSignature

SpecVerify == InitVerify /\ [][NextVerify]_vars

(***************************************************************************)
(* SpecRace: four requests for one stored subscription are served          *)
(* concurrently: a subscription.authenticated webhook, a                   *)
(* subscription.cancelled webhook, a cancel request and a verify-payment   *)
(* call.  Each request loads the row, runs its code on what it loaded, and *)
(* writes the whole row back with db.Save; no transaction or row lock      *)
(* spans the load and the save, so the steps of different requests         *)
(* interleave freely.                                                      *)
(***************************************************************************)
Racers == {"authenticated", "cancelled", "cancel", "verify"}

RestingRacer == [pc |-> "idle", seen |-> <<>>, row |-> <<>>, hints |-> FALSE]

RaceConfigs == CreateRazorpayConfig(<<>>, CHOOSE req \in OneTenantReqs : TRUE).configs

RaceCheckout ==
    CreateCheckoutURL(<<>>, RaceConfigs, <<>>, CheckoutReq(Null, "app1", "plan_m", FALSE, Null),
                      GatewayOk("sub_A"), 1)

RaceVerifyReq == VerifyReq("sub_A", "pay_1", "ks1")

\* the subscription as the checkout stored it, and as a verify-payment call left it
RaceStores ==
    {RaceCheckout.subs,
     VerifyPayment(RaceCheckout.subs, RaceConfigs, RaceCheckout.cache, RaceVerifyReq,
                   TRUE, 1).subs}

InitRace ==
    /\ configs = RaceConfigs
    /\ subs \in RaceStores
    /\ clientCache = RaceCheckout.cache
    /\ last = Idle
    /\ InitCacheSide
    /\ ckReq = Null
    /\ ckSent = Null
    /\ pages = Null
    /\ twin = Null
    /\ sigCheck = Null
    /\ handlers = [clock |-> 1, h |-> [r \in Racers |-> RestingRacer]]

RaceBody(r, hints) ==
    [event |-> "subscription." \o r,
     entity |-> IF hints THEN FullEntity("sub_A") ELSE BareEntity("sub_A")]

\* the request's code from its load to its save, run on the rows it loaded;
\* wrote: it goes on to save the row
RaceOutcome(r, seen, hints, ok) ==
    CASE r \in {"authenticated", "cancelled"} ->
            LET res == HandleWebhook(seen, configs, RaceBody(r, hints),
                                     HmacSha256Hex("ws1", RaceBody(r, hints)), handlers.clock)
            IN  [wrote |-> res.wrote, subs |-> res.subs, cache |-> clientCache]
      [] r = "cancel" ->
            LET res == CancelSubscription(seen, configs, clientCache, 1, ok)
            IN  [wrote |-> res.err = "", subs |-> res.subs, cache |-> res.cache]
      [] r = "verify" ->
            LET res == VerifyPayment(seen, configs, clientCache, RaceVerifyReq, ok,
                                     handlers.clock)
            IN  [wrote |-> res.err = "", subs |-> res.subs, cache |-> res.cache]

\* repo.FindByRazorpaySubscriptionID / repo.FindByID
RaceLoad(r) ==
    /\ handlers.h[r].pc = "idle"
    /\ \E hints \in IF r \in {"authenticated", "cancelled"} THEN BOOLEAN ELSE {FALSE} :
           handlers' = [handlers EXCEPT !.h[r] =
                           [pc |-> "loaded", seen |-> subs, row |-> <<>>, hints |-> hints]]
    /\ UNCHANGED <<configs, subs, clientCache, last, gr, rw, built, ckReq, ckSent, pages, twin,
                   sigCheck>>

\* the gateway call, the tests on the loaded row, the assignments to the struct
RaceCompute(r) ==
    /\ handlers.h[r].pc = "loaded"
    /\ \E ok \in IF r \in {"cancel", "verify"} THEN BOOLEAN ELSE {TRUE} :
           LET o == RaceOutcome(r, handlers.h[r].seen, handlers.h[r].hints, ok)
           IN  /\ handlers' = [handlers EXCEPT !.h[r] =
                                  IF o.wrote
                                  THEN [pc |-> "computed", seen |-> <<>>,
                                        row |-> <<o.subs[1]>>, hints |-> @.hints]
                                  ELSE [pc |-> "done", seen |-> <<>>, row |-> <<>>,
                                        hints |-> @.hints]]
               /\ clientCache' = o.cache
    /\ UNCHANGED <<configs, subs, last, gr, rw, built, ckReq, ckSent, pages, twin, sigCheck>>

\* repo.Update: db.Save of the struct
RaceSave(r) ==
    /\ handlers.h[r].pc = "computed"
    /\ subs' = SubRepoUpdate(subs, handlers.h[r].row[1])
    /\ handlers' = [handlers EXCEPT !.h[r] =
                       [pc |-> "done", seen |-> <<>>, row |-> <<>>, hints |-> @.hints]]
    /\ UNCHANGED <<configs, clientCache, last, gr, rw, built, ckReq, ckSent, pages, twin,
                   sigCheck>>

\* time passes
RaceTick ==
    /\ handlers.clock < MaxTime
    /\ handlers' = [handlers EXCEPT !.clock = @ + 1]
    /\ UNCHANGED <<configs, subs, clientCache, last, gr, rw, built, ckReq, ckSent, pages, twin,
                   sigCheck>>

NextRace ==
    \/ \E r \in Racers : RaceLoad(r)
    \/ \E r \in Racers : RaceCompute(r)
    \/ \E r \in Racers : RaceSave(r)
    \/ RaceTick

SpecRace == InitRace /\ [][NextRace]_vars

(***************************************************************************)
(* SpecCreateRace: concurrent CreateRazorpayConfig calls.  A call looks    *)
(* the pair up and, when it found no active config, inserts; the lookup    *)
(* and the insert are two statements with no transaction around them, so   *)
(* other requests run in between: other creates, and updates and soft      *)
(* deletes of the rows stored so far.                                      *)
(***************************************************************************)
Creators == 1..MaxGoroutines

RaceCreateReqs ==
    [AppName : {"app1"}, Environment : Envs, cred : {Cred1}, IsActive : {NoField}]

RestingCreator == [pc |-> "idle", req |-> Null, err |-> ""]

InitCreateRace ==
    /\ configs = <<>>
    /\ subs = <<>>
    /\ clientCache = <<>>
    /\ last = Idle
    /\ InitCacheSide
    /\ ckReq = Null
    /\ ckSent = Null
    /\ pages = Null
    /\ twin = Null
    /\ sigCheck = Null
    /\ handlers = [clock |-> 1, h |-> [g \in Creators |-> RestingCreator]]

\* s.repo.FindByAppNameAndEnv and the test of its result
CreateCheck(g) ==
    /\ handlers.h[g].pc = "idle"
    /\ \E req \in RaceCreateReqs :
           handlers' = [handlers EXCEPT !.h[g] =
                           IF PairTaken(configs, req)
                           THEN [pc |-> "done", req |-> <<req>>, err |-> ErrConfigExists]
                           ELSE [pc |-> "checked", req |-> <<req>>, err |-> ""]]
    /\ UNCHANGED <<configs, subs, clientCache, last, gr, rw, built, ckReq, ckSent, pages, twin,
                   sigCheck>>

\* s.repo.Create: one INSERT, which the UNIQUE constraint accepts or rejects
CreateInsert(g) ==
    /\ handlers.h[g].pc = "checked"
    /\ LET r == ConfigRepoCreate(configs, NewConfig(handlers.h[g].req[1]))
       IN  /\ configs' = r.configs
           /\ handlers' = [handlers EXCEPT !.h[g].pc = "done", !.h[g].err = r.err]
    /\ UNCHANGED <<subs, clientCache, last, gr, rw, built, ckReq, ckSent, pages, twin, sigCheck>>

\* a stored config is deactivated by an update request
CreateRaceDeactivate ==
    /\ \E id \in 1..Len(configs) :
           LET r == UpdateRazorpayConfig(configs, id,
                        [hasCred |-> FALSE, cred |-> Cred1, IsActive |-> "false"])
           IN  /\ r.err = ""
               /\ configs[id].IsActive
               /\ configs' = r.configs
    /\ UNCHANGED <<subs, clientCache, last, gr, rw, built, ckReq, ckSent, pages, twin, sigCheck,
                   handlers>>

\* a stored config is soft-deleted
CreateRaceDelete ==
    /\ \E id \in 1..Len(configs) :
           LET r == DeleteRazorpayConfig(configs, id)
           IN  /\ r.err = ""
               /\ configs' = r.configs
    /\ UNCHANGED <<subs, clientCache, last, gr, rw, built, ckReq, ckSent, pages, twin, sigCheck,
                   handlers>>

NextCreateRace ==
    \/ \E g \in Creators : CreateCheck(g)
    \/ \E g \in Creators : CreateInsert(g)
    \/ CreateRaceDeactivate
    \/ CreateRaceDelete

SpecCreateRace == InitCreateRace /\ [][NextCreateRace]_vars

(***************************************************************************)
(* SpecCache: goroutines calling getRazorpayClient concurrently.  Each     *)
(* step is one statement of the function; cacheMutex is a sync.RWMutex     *)
(* (readers exclude the writer, the writer excludes everybody).            *)
(***************************************************************************)
Goroutines == 1..MaxGoroutines

CacheConfigs ==
    {[AppName |-> "app1", Environment |-> e, RazorpayKeyID |-> "kid1",
      RazorpayKeySecret |-> "ks1"] : e \in Envs}

CacheKeys == {CacheKey(c) : c \in CacheConfigs}

Resting == [pc |-> "idle", config |-> Null, exists |-> FALSE, ret |-> Null]

InitCache ==
    /\ configs = <<>>
    /\ subs = <<>>
    /\ last = Idle
    /\ clientCache = <<>>
    /\ gr = [g \in Goroutines |-> Resting]
    /\ rw = [readers |-> {}, writer |-> 0]
    /\ built = [k \in CacheKeys |-> 0]
    /\ InitStudySide

KeyOf(g) == CacheKey(gr[g].config[1])

\* line 59: a request handler enters getRazorpayClient with its tenant config
CacheCall(g) ==
    /\ gr[g].pc = "idle"
    /\ \E c \in CacheConfigs :
          gr' = [gr EXCEPT ![g] = [pc |-> "rlock", config |-> <<c>>,
                                   exists |-> FALSE, ret |-> Null]]
    /\ UNCHANGED <<configs, subs, last, clientCache, rw, built, ckReq, ckSent, pages, twin, sigCheck,
                   handlers>>

\* line 64
CacheRLock(g) ==
    /\ gr[g].pc = "rlock"
    /\ rw.writer = 0
    /\ rw' = [rw EXCEPT !.readers = @ \cup {g}]
    /\ gr' = [gr EXCEPT ![g].pc = "read"]
    /\ UNCHANGED <<configs, subs, last, clientCache, built, ckReq, ckSent, pages, twin, sigCheck,
                   handlers>>

\* line 65
CacheRead(g) ==
    /\ gr[g].pc = "read"
    /\ gr' = [gr EXCEPT ![g].pc = "runlock",
                        ![g].exists = KeyOf(g) \in DOMAIN clientCache,
                        ![g].ret = IF KeyOf(g) \in DOMAIN clientCache
                                   THEN <<clientCache[KeyOf(g)]>> ELSE Null]
    /\ UNCHANGED <<configs, subs, last, clientCache, rw, built, ckReq, ckSent, pages, twin, sigCheck,
                   handlers>>

\* lines 66-70
CacheRUnlock(g) ==
    /\ gr[g].pc = "runlock"
    /\ rw' = [rw EXCEPT !.readers = @ \ {g}]
    /\ gr' = [gr EXCEPT ![g].pc = IF gr[g].exists THEN "done" ELSE "lock"]
    /\ UNCHANGED <<configs, subs, last, clientCache, built, ckReq, ckSent, pages, twin, sigCheck,
                   handlers>>

\* line 73
CacheLock(g) ==
    /\ gr[g].pc = "lock"
    /\ rw.writer = 0
    /\ rw.readers = {}
    /\ rw' = [rw EXCEPT !.writer = g]
    /\ gr' = [gr EXCEPT ![g].pc = "recheck"]
    /\ UNCHANGED <<configs, subs, last, clientCache, built, ckReq, ckSent, pages, twin, sigCheck,
                   handlers>>

\* line 77: the second look at the map, now under the write lock
DoubleCheckMisses(cache, key) == FALSE

DoubleCheck(cache, key) == key \in DOMAIN cache

\* lines 77-79
CacheRecheck(g) ==
    /\ gr[g].pc = "recheck"
    /\ gr' = [gr EXCEPT ![g].pc = IF DoubleCheck(clientCache, KeyOf(g))
                                  THEN "unlock" ELSE "create",
                        ![g].ret = IF DoubleCheck(clientCache, KeyOf(g))
                                   THEN <<clientCache[KeyOf(g)]>> ELSE Null]
    /\ UNCHANGED <<configs, subs, last, clientCache, rw, built, ckReq, ckSent, pages, twin, sigCheck,
                   handlers>>

\* lines 82-86: built counts the clients constructed per key
CacheCreate(g) ==
    LET c == gr[g].config[1]
        newClient == NewClient(c.RazorpayKeyID, c.RazorpayKeySecret, built[KeyOf(g)] + 1)
    IN  /\ gr[g].pc = "create"
        /\ built[KeyOf(g)] < MaxGoroutines
        /\ built' = [built EXCEPT ![KeyOf(g)] = @ + 1]
        /\ clientCache' = [k \in DOMAIN clientCache \cup {KeyOf(g)} |->
                              IF k = KeyOf(g) THEN newClient ELSE clientCache[k]]
        /\ gr' = [gr EXCEPT ![g].pc = "unlock", ![g].ret = <<newClient>>]
        /\ UNCHANGED <<configs, subs, last, rw, ckReq, ckSent, pages, twin, sigCheck, handlers>>

\* line 74: the deferred Unlock runs as the function returns
CacheUnlock(g) ==
    /\ gr[g].pc = "unlock"
    /\ rw' = [rw EXCEPT !.writer = 0]
    /\ gr' = [gr EXCEPT ![g].pc = "done"]
    /\ UNCHANGED <<configs, subs, last, clientCache, built, ckReq, ckSent, pages, twin, sigCheck,
                   handlers>>

\* the caller has used the handle; the goroutine serves its next request
CacheReturn(g) ==
    /\ gr[g].pc = "done"
    /\ gr' = [gr EXCEPT ![g] = Resting]
    /\ UNCHANGED <<configs, subs, last, clientCache, rw, built, ckReq, ckSent, pages, twin, sigCheck,
                   handlers>>

NextCache ==
    \E g \in Goroutines :
        \/ CacheCall(g)
        \/ CacheRLock(g)
        \/ CacheRead(g)
        \/ CacheRUnlock(g)
        \/ CacheLock(g)
        \/ CacheRecheck(g)
        \/ CacheCreate(g)
        \/ CacheUnlock(g)
        \/ CacheReturn(g)

SpecCache == InitCache /\ [][NextCache]_vars

\* C1: for a given tenant key (app name ":" environment) at most one gateway
\* client is ever constructed, whatever the interleaving of concurrent calls,
\* and every call for that key returns that one handle.
C1_OneClientPerKey ==
    /\ \A k \in CacheKeys : built[k] <= 1
    /\ \A k \in DOMAIN clientCache : clientCache[k].serial = 1
    /\ \A g \in Goroutines :
          gr[g].pc = "done" =>
              /\ KeyOf(g) \in DOMAIN clientCache
              /\ gr[g].ret = <<clientCache[KeyOf(g)]>>

\* two goroutines both missed the key on the unlocked read, and both returned
C1_Witness ==
    \E g, h \in Goroutines :
        /\ g # h
        /\ gr[g].pc = "done" /\ gr[h].pc = "done"
        /\ KeyOf(g) = KeyOf(h)
        /\ ~gr[g].exists /\ ~gr[h].exists
        /\ gr[g].ret = gr[h].ret
        /\ built[KeyOf(g)] = 1

(***************************************************************************)
(* SpecConfig: the tenant configuration API alone, with every create and   *)
(* update request.                                                         *)
(***************************************************************************)
NextConfig ==
    \/ DoCreateConfig(CreateConfigReqs)
    \/ DoUpdateConfig(UpdateConfigReqs)
    \/ DoDeleteConfig

SpecConfig == Init /\ [][NextConfig]_vars

\* a stored config (not soft-deleted) already carries the pair
PairExists(app, env) ==
    \E i \in 1..Len(configs) :
        /\ ~configs[i].Deleted
        /\ configs[i].AppName = app
        /\ configs[i].Environment = env

\* C7: when a config with the same (app name, environment) pair exists, active
\* or not, a create for that pair fails with the conflict error (HTTP 409) and
\* stores no record, whatever its other fields.
C7_DuplicatePairConflicts ==
    [][\A req \in CreateConfigReqs :
          (PairExists(req.AppName, req.Environment) /\ CreateConfigStep(req)) =>
              /\ last'.err = ErrConfigExists
              /\ last'.http = 409
              /\ configs' = configs]_vars

(***************************************************************************)
(* SpecCheckout: one checkout request, drawn from every combination of the *)
(* optional fields, against a store holding one active tenant config.      *)
(***************************************************************************)
StudyPlans ==
    {"plan_m", " plan_m ", "plan_w", "plan_d", "plan_y ", "plan_q", "plan_x", "   "}

StudyReqs ==
    [ClientID : {Null}, AppName : {"app1"}, PlanID : StudyPlans,
     InitialChargeAmount : {Null, <<0>>, <<5>>, <<-1>>},
     FirstChargeDelayDays : {Null, <<0>>, <<3>>, <<-2>>},
     TotalCount : {0, 12}, StartAt : {Null, <<777>>}, Quantity : {0, 2}, Notes : {Null}]

InitCheckout ==
    /\ configs = CreateRazorpayConfig(<<>>, CHOOSE r \in OneTenantReqs : TRUE).configs
    /\ subs = <<>>
    /\ clientCache = <<>>
    /\ last = Idle
    /\ InitCacheSide
    /\ \E req \in StudyReqs, now \in Times : ckReq = <<req, now>>
    /\ ckSent = Null
    /\ pages = Null
    /\ twin = Null
    /\ sigCheck = Null
    /\ handlers = Null

\* the request is served once; ckSent keeps what Subscription.Create received
StudyCheckout(gw) ==
    LET r == CreateCheckoutURL(subs, configs, clientCache, ckReq[1], gw, ckReq[2])
    IN  /\ last.op = "none"
        /\ subs' = r.subs
        /\ clientCache' = r.cache
        /\ ckSent' = r.sent
        /\ last' = [Log("CreateCheckoutURL", "", r.err, CreateCheckoutStatus(r.err), r.calls)
                        EXCEPT !.id = r.id]
        /\ UNCHANGED <<configs, gr, rw, built, ckReq, pages, twin, sigCheck, handlers>>

NextCheckout ==
    \E gw \in {GatewayOk("sub_A"), GatewayDown("sub_A"), GatewayPlanDown("sub_A")} :
        StudyCheckout(gw)

SpecCheckout == InitCheckout /\ [][NextCheckout]_vars

\* both amounts explicitly zero, on the monthly plan priced 49900
ZeroZeroMonthly(req) ==
    /\ req.InitialChargeAmount = <<0>>
    /\ req.FirstChargeDelayDays = <<0>>
    /\ TrimSpace(req.PlanID) = "plan_m"

ThirtyDaysAfter(now) == now + 30 * 24 * 3600

Handled(event) ==
    /\ last'.op = "HandleWebhook"
    /\ last'.event = event
    /\ last'.err = ""
    /\ Len(subs) = 1

\* C2: a correctly signed subscription.cancelled webhook leaves the subscription
\* cancelled, and a correctly signed subscription.authenticated webhook handled
\* for the cancelled subscription changes no field of the record.
C2_LateAuthenticatedIgnored ==
    [][/\ Handled("subscription.cancelled") => subs'[1].Status = "cancelled"
       /\ (Handled("subscription.authenticated") /\ subs[1].Status = "cancelled") =>
              subs' = subs]_vars

\* the cancelled webhook stored its end_at hint, then the late authenticated webhook came
C2_Witness ==
    /\ Len(subs) = 1
    /\ subs[1].Status = "cancelled"
    /\ subs[1].EndAt = <<300>>
    /\ ~IsAuthenticatedTrue(JsonUnmarshal(subs[1].Metadata))
    /\ last.op = "HandleWebhook"
    /\ last.event = "subscription.authenticated"
    /\ last.err = ""

\* metadata.authenticated and metadata.authenticated_at, each absent or present with its value
AuthMarks(sub) ==
    LET m == JsonUnmarshal(sub.Metadata)
    IN  <<IF Has(m, "authenticated") THEN <<m["authenticated"]>> ELSE Null,
          IF Has(m, "authenticated_at") THEN <<m["authenticated_at"]>> ELSE Null>>

\* C3 as the claim states it: every handling of a correctly signed
\* subscription.authenticated webhook leaves metadata.authenticated_at set, and a
\* second handling in sequence leaves both markers as the first left them.
C3_FirstSetsSecondKeeps ==
    [][Handled("subscription.authenticated") =>
          /\ AuthMarks(subs'[1])[2] # Null
          /\ last'.streak = 2 => AuthMarks(subs'[1]) = AuthMarks(subs[1])]_vars

\* C3 (amended): for a subscription that is not cancelled and whose metadata
\* does not already carry authenticated = true, handling a correctly signed
\* subscription.authenticated webhook sets metadata.authenticated = true and
\* metadata.authenticated_at; in every case a second handling in sequence leaves
\* both markers exactly as the first left them.
C3_ReplayIdempotent ==
    [][Handled("subscription.authenticated") =>
          /\ (/\ subs[1].Status # "cancelled"
              /\ ~IsAuthenticatedTrue(JsonUnmarshal(subs[1].Metadata))) =>
                  /\ AuthMarks(subs'[1])[1] = <<"true">>
                  /\ AuthMarks(subs'[1])[2] # Null
          /\ last'.streak = 2 => AuthMarks(subs'[1]) = AuthMarks(subs[1])]_vars

\* the webhook was handled twice in a row and the marker of the first handling stands
C3_Witness ==
    /\ Len(subs) = 1
    /\ last.op = "HandleWebhook"
    /\ last.event = "subscription.authenticated"
    /\ last.err = ""
    /\ last.streak = 2
    /\ subs[1].Status = "authenticated"
    /\ AuthMarks(subs[1]) = <<(<<"true">>), <<FormatRFC3339(1)>>>>

\* a verify-payment call with a valid signature that the gateway confirmed
Verified ==
    /\ last'.op = "VerifyPayment"
    /\ last'.err = ""
    /\ last'.calls = <<"Subscription.Fetch">>
    /\ Len(subs) = 1

\* C13 as the claim states it: a VerifyPayment call with a valid signature that
\* the gateway confirms sets status authenticated and metadata.authenticated =
\* true with a timestamp (metadata.authenticated_at); a second call in sequence
\* leaves status and both markers as the first call left them.
C13_VerifySetsMarkersOnce ==
    [][Verified =>
          /\ subs'[1].Status = "authenticated"
          /\ AuthMarks(subs'[1])[1] = <<"true">>
          /\ AuthMarks(subs'[1])[2] # Null
          /\ last'.streak = 2 =>
                /\ subs'[1].Status = subs[1].Status
                /\ AuthMarks(subs'[1]) = AuthMarks(subs[1])]_vars

\* C13 (amended): such a call sets status authenticated and leaves
\* metadata.authenticated = true; it writes the timestamp unless the metadata
\* already carried authenticated = true (then it leaves the metadata as it
\* is, with or without a timestamp); a second call in sequence leaves status
\* and both markers as the first call left them.
C13_VerifySetsMarkersOnceUnlessMarked ==
    [][Verified =>
          /\ subs'[1].Status = "authenticated"
          /\ AuthMarks(subs'[1])[1] = <<"true">>
          /\ IF IsAuthenticatedTrue(JsonUnmarshal(subs[1].Metadata))
             THEN subs'[1].Metadata = subs[1].Metadata
             ELSE AuthMarks(subs'[1])[2] # Null
          /\ last'.streak = 2 =>
                /\ subs'[1].Status = subs[1].Status
                /\ AuthMarks(subs'[1]) = AuthMarks(subs[1])]_vars

\* verify-payment was served twice in a row and the timestamp of the first
\* call stands
C13_Witness ==
    /\ Len(subs) = 1
    /\ last.op = "VerifyPayment"
    /\ last.err = ""
    /\ last.streak = 2
    /\ subs[1].Status = "authenticated"
    /\ AuthMarks(subs[1]) = <<(<<"true">>), <<FormatRFC3339(2)>>>>

\* C15: cancelled is a terminal status: once a subscription's status is
\* cancelled, no later webhook of any event type, verify-payment call or cancel
\* request changes it to anything other than cancelled.
C15_CancelledIsTerminal ==
    [][\A i \in 1..Len(subs) :
          subs[i].Status = "cancelled" => subs'[i].Status = "cancelled"]_vars

\* record i is expired after the request and was not before it
BecomesExpired(i) ==
    /\ subs'[i].Status = "expired"
    /\ i <= Len(subs) => subs[i].Status # "expired"

\* C16 as the claim states it: a subscription's status becomes expired only as
\* the effect of handling a subscription.halted webhook; no checkout,
\* verify-payment call, cancel request or webhook of another event type leaves
\* a subscription expired unless it was already expired.
C16_ExpiredOnlyFromHalted ==
    [][\A i \in 1..Len(subs') :
          BecomesExpired(i) =>
              last'.op = "HandleWebhook" /\ last'.event = "subscription.halted"]_vars

\* C16 (amended): a subscription's status becomes expired only as the effect of
\* handling a subscription.halted webhook, or because the gateway itself
\* reported the status expired: in the subscription entity of a
\* subscription.authenticated webhook for a subscription that is not
\* cancelled, or in the Subscription.Create response of the checkout that
\* stored the record.  No verify-payment call, cancel request or webhook of
\* another event type leaves a subscription expired unless it was already.
C16_ExpiredOnlyFromHaltedOrReported ==
    [][\A i \in 1..Len(subs') :
          BecomesExpired(i) =>
              \/ last'.op = "HandleWebhook" /\ last'.event = "subscription.halted"
              \/ /\ last'.op = "HandleWebhook"
                 /\ last'.event = "subscription.authenticated"
                 /\ i <= Len(subs)
                 /\ subs[i].Status # "cancelled"
                 /\ \E body \in ReportingBodies("sub_A"), now \in Times :
                       /\ body.event = "subscription.authenticated"
                       /\ body.entity.status = "expired"
                       /\ WebhookStep(body, "ws1", now)
              \/ /\ last'.op = "CreateCheckoutURL"
                 /\ i = Len(subs')
                 /\ Len(subs') = Len(subs) + 1
                 /\ \E req \in StoreCheckoutReqs :
                       CheckoutStep(req, GatewayReporting("sub_A", "expired"))]_vars

\* a subscription that had been authenticated was halted: it is expired
C16_Witness ==
    /\ Len(subs) = 1
    /\ subs[1].Status = "expired"
    /\ IsAuthenticatedTrue(JsonUnmarshal(subs[1].Metadata))
    /\ last.op = "HandleWebhook"
    /\ last.event = "subscription.halted"
    /\ last.err = ""

Rank(status) ==
    CASE status = "created" -> 0
      [] status = "authenticated" -> 1
      [] status \in {"active", "paused"} -> 2
      [] OTHER -> 3

MovesBack(i) == Rank(subs'[i].Status) < Rank(subs[i].Status)

\* C6 as the claim states it: no request moves a subscription's status backwards
\* in created < authenticated < {active, paused} < {cancelled, completed,
\* expired}; moves between active and paused are the only non-forward ones.
C6_StatusMonotonic ==
    [][\A i \in 1..Len(subs) : ~MovesBack(i)]_vars

\* C6 (amended): a subscription's status moves backwards in that order only
\* through a verify-payment call (to authenticated, from any status), a
\* subscription.authenticated webhook (on a subscription not cancelled), or a
\* subscription.pending, subscription.paused (to paused) or subscription.resumed
\* (to active) webhook; charged, activated, halted, cancelled and completed
\* webhooks, unrecognized events and cancel requests never move it backwards.
C6_BackwardOnlyThrough ==
    [][\A i \in 1..Len(subs) :
          MovesBack(i) =>
              \/ last'.op = "VerifyPayment" /\ subs'[i].Status = "authenticated"
              \/ /\ last'.op = "HandleWebhook"
                 /\ \/ /\ last'.event = "subscription.authenticated"
                       /\ subs[i].Status # "cancelled"
                    \/ last'.event = "subscription.pending"
                    \/ last'.event = "subscription.paused" /\ subs'[i].Status = "paused"
                    \/ last'.event = "subscription.resumed" /\ subs'[i].Status = "active"]_vars

\* a completed subscription (its ended_at hint stored) is authenticated again by verify-payment
C6_Witness ==
    /\ Len(subs) = 1
    /\ subs[1].Status = "authenticated"
    /\ subs[1].EndAt = <<400>>
    /\ last.op = "VerifyPayment"
    /\ last.err = ""

(***************************************************************************)
(* Trust properties (SpecTrust: the tenant's config is created, updated    *)
(* and soft-deleted while requests signed with every secret arrive).       *)
(***************************************************************************)
\* a stored subscription carries this gateway id
Stored(gid) == \E i \in 1..Len(subs) : subs[i].RazorpaySubscriptionID = gid

\* the config row the subscription with this gateway id references, soft-deleted or not
TenantRow(gid) ==
    configs[(CHOOSE sub \in {subs[i] : i \in 1..Len(subs)} :
                sub.RazorpaySubscriptionID = gid).RazorpayConfigID]

\* the signature is the HMAC of the body under the webhook secret of that config
SignedByTenant(body, k) ==
    HmacSha256Hex(k, body) =
        HmacSha256Hex(DecryptString(TenantRow(body.entity.id).RazorpayWebhookSecret), body)

Rejected401 ==
    /\ last'.err = ErrInvalidWebhookSignature
    /\ last'.http = 401
    /\ subs' = subs

SignedWithTenantKey(req) ==
    req.RazorpaySignature =
        HmacSha256Hex(DecryptString(TenantRow(req.RazorpaySubscriptionID).RazorpayKeySecret),
                      VerifyMessage(req))

\* C5 as the claim states it: VerifyPayment for a stored gateway subscription id
\* with a signature computed with another key secret than its config's fails
\* with 'invalid signature', calls no gateway, and leaves the record unchanged.
C5_WrongKeyIsTrustError ==
    [][\A req \in TrustVerifyReqs, fetchOk \in BOOLEAN, now \in Times :
          (/\ Stored(req.RazorpaySubscriptionID)
           /\ ~SignedWithTenantKey(req)
           /\ last'.op = "VerifyPayment"
           /\ VerifyStep(req, fetchOk, now)) =>
              /\ last'.err = "invalid signature"
              /\ last'.calls = <<>>
              /\ subs' = subs]_vars

\* C5 (amended): the same, for a subscription whose config has not been
\* soft-deleted; when it has been soft-deleted the result is 'failed to find
\* razorpay config' instead.  In both cases the result is never 'subscription
\* not found', the gateway is not called, and the record is unchanged.
C5_WrongKeyIsTrustErrorIfConfigFound ==
    [][\A req \in TrustVerifyReqs, fetchOk \in BOOLEAN, now \in Times :
          (/\ Stored(req.RazorpaySubscriptionID)
           /\ ~SignedWithTenantKey(req)
           /\ last'.op = "VerifyPayment"
           /\ VerifyStep(req, fetchOk, now)) =>
              /\ last'.err = IF TenantRow(req.RazorpaySubscriptionID).Deleted
                             THEN "failed to find razorpay config"
                             ELSE "invalid signature"
              /\ last'.calls = <<>>
              /\ subs' = subs]_vars

\* a verify-payment call for a stored subscription was refused as a trust error
C5_Witness ==
    /\ Len(subs) = 1
    /\ ~configs[subs[1].RazorpayConfigID].Deleted
    /\ last.op = "VerifyPayment"
    /\ last.err = "invalid signature"
    /\ last.http = 401
    /\ last.calls = <<>>

\* what a cancel request for an unknown internal id does
UnknownIdOutcome ==
    /\ last'.err = "subscription not found"
    /\ last'.calls = <<>>
    /\ subs' = subs

\* what a cancel request for stored record id does when the gateway is asked
GatewayDecides(id, cancelOk) ==
    /\ last'.calls = <<"Subscription.Cancel">>
    /\ IF cancelOk
       THEN /\ last'.err = ""
            /\ subs' = [subs EXCEPT ![id].Status = "cancelled"]
       ELSE /\ last'.err = "failed to cancel razorpay subscription"
            /\ subs' = subs

\* C17 as the claim states it: CancelSubscription on an existing subscription
\* calls the gateway cancel API and sets the local status to cancelled only if
\* that call succeeds; if the call fails an error is returned and the record
\* is unchanged; for an unknown internal id it returns 'subscription not
\* found' without calling the gateway.
C17_CancelFollowsGateway ==
    [][\A id \in 1..MaxSubs, cancelOk \in BOOLEAN :
          (last'.op = "CancelSubscription" /\ CancelStep(id, cancelOk)) =>
              IF id \in 1..Len(subs) THEN GatewayDecides(id, cancelOk)
              ELSE UnknownIdOutcome]_vars

\* C17 (amended): the same for an existing subscription whose config has not
\* been soft-deleted; when the config has been soft-deleted the request fails
\* with 'failed to find razorpay config', the gateway is not called and the
\* record is unchanged.
C17_CancelFollowsGatewayIfConfigFound ==
    [][\A id \in 1..MaxSubs, cancelOk \in BOOLEAN :
          (last'.op = "CancelSubscription" /\ CancelStep(id, cancelOk)) =>
              IF id \notin 1..Len(subs) THEN UnknownIdOutcome
              ELSE IF configs[subs[id].RazorpayConfigID].Deleted
              THEN /\ last'.err = "failed to find razorpay config"
                   /\ last'.calls = <<>>
                   /\ subs' = subs
              ELSE GatewayDecides(id, cancelOk)]_vars

\* the gateway refused the cancel of a stored subscription, which keeps its status
C17_Witness ==
    /\ Len(subs) = 1
    /\ subs[1].Status # "cancelled"
    /\ last.op = "CancelSubscription"
    /\ last.err = "failed to cancel razorpay subscription"
    /\ last.calls = <<"Subscription.Cancel">>
    /\ last.http = 500

\* C19: a checkout that fails because the config is missing, the config is
\* inactive, or the plan id is empty after trimming is answered with a client
\* error (HTTP 4xx), distinct from the status that reports a failed gateway call.
C19_RequestFaultsAreClientErrors ==
    (/\ last.op = "CreateCheckoutURL"
     /\ last.err \in {"failed to find razorpay config", "razorpay config is not active",
                      "plan_id is required"}) =>
        /\ last.http \in 400..499
        /\ last.http # CreateCheckoutStatus("failed to create razorpay subscription")

\* the config the request selects is stored, not soft-deleted, and active
SelectedUsable(req) ==
    IF req.ClientID # Null
    THEN /\ req.ClientID[1] \in 1..Len(configs)
         /\ ~configs[req.ClientID[1]].Deleted
         /\ configs[req.ClientID[1]].IsActive
    ELSE \E i \in 1..Len(configs) :
            /\ configs[i].AppName = req.AppName
            /\ configs[i].Environment = GetRazorpayEnvironment
            /\ ~configs[i].Deleted
            /\ configs[i].IsActive

\* C9: CreateCheckoutURL fails when the config it selects, by explicit id or by
\* app name, does not exist or is inactive; it then calls no gateway operation
\* and stores no subscription record.
C9_UnusableConfigStopsCheckout ==
    [][\A req \in TrustCheckoutReqs, gw \in TrustAnswers :
          (~SelectedUsable(req) /\ last'.op = "CreateCheckoutURL" /\ CheckoutStep(req, gw)) =>
              /\ last'.err # ""
              /\ last'.calls = <<>>
              /\ subs' = subs]_vars

\* a checkout naming an inactive config was refused
C9_Witness ==
    /\ last.op = "CreateCheckoutURL"
    /\ last.err = "razorpay config is not active"
    /\ last.calls = <<>>
    /\ \E i \in 1..Len(configs) : ~configs[i].IsActive /\ ~configs[i].Deleted

(***************************************************************************)
(* Store properties (SpecStore: the gateway reports either of two ids).    *)
(***************************************************************************)
\* C10: a record's gateway subscription id is the id the gateway reported when
\* the record was created; no verify-payment call, webhook or cancel request
\* changes it, and no two records share one gateway subscription id.
C10_GatewayIdFixedAndUnique ==
    [][/\ \A i \in 1..Len(subs) :
             /\ i <= Len(subs')
             /\ subs'[i].RazorpaySubscriptionID = subs[i].RazorpaySubscriptionID
       /\ \A i, j \in 1..Len(subs') :
             i # j => subs'[i].RazorpaySubscriptionID # subs'[j].RazorpaySubscriptionID
       /\ Len(subs') # Len(subs) =>
             /\ last'.op = "CreateCheckoutURL"
             /\ Len(subs') = Len(subs) + 1
       /\ \A req \in StoreCheckoutReqs, gw \in StoreAnswers :
             (Len(subs') # Len(subs) /\ CheckoutStep(req, gw)) =>
                 subs'[Len(subs')].RazorpaySubscriptionID = gw.id]_vars

\* two records, both acted on, and a checkout whose reported id was already stored
C10_Witness ==
    /\ Len(subs) = 2
    /\ subs[1].RazorpaySubscriptionID # subs[2].RazorpaySubscriptionID
    /\ subs[1].Status # "created"
    /\ subs[2].Status # "created"
    /\ last.op = "CreateCheckoutURL"
    /\ last.err = "failed to save subscription"

\* the internal ids of the stored records
StoredIDs(S) == {S[i].ID : i \in 1..Len(S)}

\* C11: every successful CreateCheckoutURL returns an internal subscription id
\* that no earlier call returned (each returned id is the key of the record
\* stored by that call, keys never change, and the new key is the key of no
\* stored record) and persists exactly one new record, whose gateway
\* subscription id is the id the gateway reported for that call; an identical
\* request served again is not deduplicated: it stores a second record.
C11_FreshIdOneRecordNoDedup ==
    [][/\ \A i \in 1..Len(subs) : i <= Len(subs') /\ subs'[i].ID = subs[i].ID
       /\ \A req \in StoreCheckoutReqs, gw \in StoreAnswers :
             (last'.op = "CreateCheckoutURL" /\ last'.err = "" /\ CheckoutStep(req, gw)) =>
                 /\ last'.id # UUIDNil
                 /\ last'.id \notin StoredIDs(subs)
                 /\ Len(subs') = Len(subs) + 1
                 /\ SubSeq(subs', 1, Len(subs)) = subs
                 /\ subs'[Len(subs')].ID = last'.id
                 /\ subs'[Len(subs')].RazorpaySubscriptionID = gw.id]_vars

\* the one request of SpecStore was served twice in a row: two records with
\* different internal ids, the second one returned
C11_Witness ==
    /\ last.op = "CreateCheckoutURL"
    /\ last.err = ""
    /\ last.streak = 2
    /\ Len(subs) = 2
    /\ subs[1].ID # subs[2].ID
    /\ last.id = subs[2].ID
    /\ [subs[2] EXCEPT !.ID = subs[1].ID,
                       !.RazorpaySubscriptionID = subs[1].RazorpaySubscriptionID] = subs[1]

(***************************************************************************)
(* List properties (SpecPage)                                              *)
(***************************************************************************)
\* the configs a list request shows: not soft-deleted, and active when active_only is set
Shown(activeOnly) ==
    { i \in 1..Len(configs) : ~configs[i].Deleted /\ (activeOnly => configs[i].IsActive) }

\* t = ceil(n / p), for p >= 1
IsCeil(t, n, p) == p * (t - 1) < n /\ n <= p * t

\* every page the responses announced has been fetched
WalkDone == pages.fetched > 0 /\ pages.fetched >= pages.totalPages

\* data is the full result set, newest first, nothing duplicated or omitted
FullResultSet(data, activeOnly) ==
    /\ Len(data) = Cardinality(Shown(activeOnly))
    /\ {data[i].ID : i \in 1..Len(data)} = Shown(activeOnly)
    /\ \A i, j \in 1..Len(data) : i < j => data[i].ID > data[j].ID
    /\ \A i \in 1..Len(data) :
          /\ data[i].AppName = configs[data[i].ID].AppName
          /\ data[i].Environment = configs[data[i].ID].Environment
          /\ data[i].IsActive = configs[data[i].ID].IsActive

CredentialFields == {"RazorpayKeyID", "RazorpayKeySecret", "RazorpayWebhookSecret"}

\* a config with its three credential fields blanked
Blanked(row) ==
    [row EXCEPT !.RazorpayKeyID = "", !.RazorpayKeySecret = "", !.RazorpayWebhookSecret = ""]

\* the two stores hold the same rows up to the values of the credential fields
DifferOnlyInSecrets ==
    /\ Len(twin.configs) = Len(configs)
    /\ \A i \in 1..Len(configs) : Blanked(twin.configs[i]) = Blanked(configs[i])

\* the response body, and every config of a list body, has no credential field
CarriesNoCredential(body) ==
    /\ DOMAIN body \cap CredentialFields = {}
    /\ "Data" \in DOMAIN body =>
          \A i \in 1..Len(body.Data) : DOMAIN body.Data[i] \cap CredentialFields = {}

Recognised ==
    {"subscription.authenticated", "subscription.activated", "subscription.charged",
     "subscription.pending", "subscription.halted", "subscription.cancelled",
     "subscription.completed", "subscription.paused", "subscription.resumed"}

\* the webhook was answered with success and no write to the store was issued
SuccessWithoutWrite(body, k, now) ==
    LET r == HandleWebhook(subs, configs, body, HmacSha256Hex(k, body), now)
    IN  r.err = "" /\ ~r.panic /\ ~r.wrote

IsHexHmacOfCall ==
    /\ sigCheck.form = "lower"
    /\ sigCheck.by = sigCheck.secret
    /\ sigCheck.over = sigCheck.message

C21_StatusInDomain ==
    \A i \in 1..Len(subs) : subs[i].Status \in Statuses

(***************************************************************************)
(* Effects of the single events (SpecStore: both gateway ids, every event  *)
(* signed with the tenant's webhook secret).                               *)
(***************************************************************************)
\* the stored record with this gateway id, after the request
RecordAfter(gid) ==
    subs'[CHOOSE i \in 1..Len(subs') : subs'[i].RazorpaySubscriptionID = gid]

\* C22: handling a correctly signed subscription.pending webhook for a stored
\* subscription in any status returns without error and leaves the status of
\* the subscription with the gateway id of the payload equal to created.
C22_PendingRevertsToCreated ==
    [][\A body \in BareBodies(GatewayIds) :
          (/\ body.event = "subscription.pending"
           /\ last'.op = "HandleWebhook"
           /\ last'.event = body.event
           /\ Stored(body.entity.id)
           /\ WebhookStep(body, "ws1", 1)) =>
              /\ last'.err = ""
              /\ RecordAfter(body.entity.id).Status = "created"]_vars

(***************************************************************************)
(* Effects of the single events (Spec: each event with and without hints). *)
(***************************************************************************)
\* the stored record with this gateway id, before the request
RecordBefore(gid) ==
    subs[CHOOSE i \in 1..Len(subs) : subs[i].RazorpaySubscriptionID = gid]

\* the request just served is this webhook, correctly signed, for a stored subscription
ServedSigned(body) ==
    /\ last'.op = "HandleWebhook"
    /\ last'.event = body.event
    /\ Stored(body.entity.id)
    /\ \E now \in ClockReadings(body) : WebhookStep(body, "ws1", now)

\* C23: handling a correctly signed subscription.charged webhook persists the
\* next-charge time when the payload carries one, sets the status to active
\* when it was created or authenticated, and leaves every other status as it was.
C23_ChargedActivatesFirstCharge ==
    [][\A body \in LifeBodies :
          (body.event = "subscription.charged" /\ ServedSigned(body)) =>
              LET before == RecordBefore(body.entity.id)
                  after == RecordAfter(body.entity.id)
              IN  /\ last'.err = ""
                  /\ body.entity.charge_at # Null =>
                        after.NextChargeAt = body.entity.charge_at
                  /\ body.entity.charge_at = Null =>
                        after.NextChargeAt = before.NextChargeAt
                  /\ before.Status \in {"created", "authenticated"} =>
                        after.Status = "active"
                  /\ before.Status \notin {"created", "authenticated"} =>
                        after.Status = before.Status]_vars

\* a charge arrived for a cancelled subscription: the next-charge time of the
\* payload is stored and the status is still cancelled
C23_Witness ==
    /\ Len(subs) = 1
    /\ subs[1].Status = "cancelled"
    /\ subs[1].NextChargeAt = <<200>>
    /\ last.op = "HandleWebhook"
    /\ last.event = "subscription.charged"
    /\ last.err = ""

\* C24: handling a correctly signed subscription.activated webhook changes at
\* most the start time of the subscription: its status, gateway subscription
\* id, customer id, next-charge time, end time and metadata are unchanged, and
\* so is every other column; the start time becomes the payload's when the
\* payload carries one.
C24_ActivatedSetsStartTimeOnly ==
    [][\A body \in LifeBodies :
          (body.event = "subscription.activated" /\ ServedSigned(body)) =>
              LET before == RecordBefore(body.entity.id)
                  after == RecordAfter(body.entity.id)
              IN  /\ last'.err = ""
                  /\ Len(subs') = Len(subs)
                  /\ after.Status = before.Status
                  /\ after.RazorpaySubscriptionID = before.RazorpaySubscriptionID
                  /\ after.RazorpayCustomerID = before.RazorpayCustomerID
                  /\ after.NextChargeAt = before.NextChargeAt
                  /\ after.EndAt = before.EndAt
                  /\ after.Metadata = before.Metadata
                  /\ after = [before EXCEPT !.StartAt = after.StartAt]
                  /\ after.StartAt = IF body.entity.start_at # Null
                                     THEN body.entity.start_at
                                     ELSE before.StartAt]_vars

\* an activation with a start time arrived for a subscription that is still
\* created: the start time is stored and the status is created
C24_Witness ==
    /\ Len(subs) = 1
    /\ subs[1].Status = "created"
    /\ subs[1].StartAt = <<100>>
    /\ last.op = "HandleWebhook"
    /\ last.event = "subscription.activated"
    /\ last.err = ""

\* the status each of these events stores
StatusSetBy(event) ==
    CASE event = "subscription.halted" -> "expired"
      [] event = "subscription.cancelled" -> "cancelled"
      [] event = "subscription.completed" -> "completed"
      [] event = "subscription.paused" -> "paused"
      [] event = "subscription.resumed" -> "active"

\* C25: for each of the events halted, cancelled, completed, paused and
\* resumed, handling a correctly signed webhook for a subscription in any
\* prior status succeeds and leaves the status equal to expired, cancelled,
\* completed, paused and active respectively.
C25_EventSetsItsStatus ==
    [][\A body \in LifeBodies :
          (/\ body.event \in {"subscription.halted", "subscription.cancelled",
                               "subscription.completed", "subscription.paused",
                               "subscription.resumed"}
           /\ ServedSigned(body)) =>
              /\ last'.err = ""
              /\ RecordAfter(body.entity.id).Status = StatusSetBy(body.event)]_vars

\* a subscription that had been cancelled, with the end time the cancellation
\* carried, was resumed: it is active
C25_Witness ==
    /\ Len(subs) = 1
    /\ subs[1].Status = "active"
    /\ subs[1].EndAt = <<300>>
    /\ last.op = "HandleWebhook"
    /\ last.event = "subscription.resumed"
    /\ last.err = ""

(***************************************************************************)
(* Cache properties (SpecTrust).                                           *)
(***************************************************************************)
\* C26: the client cache only grows: once a tenant key maps to a client
\* handle, no request removes or replaces the entry, and a getRazorpayClient
\* call with any stored config of that key, be it rotated, deactivated or
\* soft-deleted, returns that handle.
C26_CacheOnlyGrows ==
    /\ [](\A i \in 1..Len(configs) :
            LET config == DecryptConfig(configs[i])
            IN  CacheKey(config) \in DOMAIN clientCache =>
                    getRazorpayClient(clientCache, config)[CacheKey(config)]
                        = clientCache[CacheKey(config)])
    /\ [][\A k \in DOMAIN clientCache :
              k \in DOMAIN clientCache' /\ clientCache'[k] = clientCache[k]]_vars

\* the tenant's key secret was rotated after its client had been cached, and a
\* gateway call has been made since: the cache still holds the first client
C26_Witness ==
    /\ Len(configs) >= 1
    /\ CacheKey(configs[1]) \in DOMAIN clientCache
    /\ clientCache[CacheKey(configs[1])].key_secret = "ks1"
    /\ DecryptConfig(configs[1]).RazorpayKeySecret = "ks2"
    /\ last.op \in {"VerifyPayment", "CancelSubscription"}
    /\ last.calls # <<>>

(***************************************************************************)
(* Orphaned gateway subscriptions (SpecStore: the Plan.Fetch after         *)
(* Subscription.Create, or the insert, may fail).                          *)
(***************************************************************************)
\* C27: when Subscription.Create succeeds for a gateway subscription that is
\* not stored yet and a later step of CreateCheckoutURL fails (the Plan.Fetch
\* that follows it, or the insert), the call returns an error, no record exists
\* for the gateway subscription, the store is unchanged, and the gateway is
\* not asked to cancel the subscription it created.
C27_LaterFailureOrphans ==
    [][\A req \in StoreCheckoutReqs, gw \in OrphaningAnswers :
          (/\ last'.op = "CreateCheckoutURL"
           /\ last'.err # ""
           /\ ~Stored(gw.id)
           /\ CheckoutStep(req, gw)
           /\ \E n \in 1..Len(last'.calls) : last'.calls[n] = "Subscription.Create") =>
              /\ last'.err \in {"failed to fetch plan", "failed to save subscription"}
              /\ last'.http = 500
              /\ subs' = subs
              /\ \A i \in 1..Len(subs') : subs'[i].RazorpaySubscriptionID # gw.id
              /\ \A n \in 1..Len(last'.calls) : last'.calls[n] # "Subscription.Cancel"]_vars

\* the insert failed after the gateway had created the subscription, with no
\* record stored at all
C27_Witness ==
    /\ subs = <<>>
    /\ last.op = "CreateCheckoutURL"
    /\ last.err = "failed to save subscription"
    /\ last.calls = <<"Subscription.Create", "Plan.Fetch">>

(***************************************************************************)
(* Concurrent requests for one subscription (SpecRace).                    *)
(***************************************************************************)
\* this racer's save is the step taken
Saves(r) == handlers.h[r].pc = "computed" /\ handlers'.h[r].pc = "done"

\* C28: when a subscription.cancelled webhook or a cancel request and a
\* subscription.authenticated webhook for the same subscription are handled
\* concurrently, then under every interleaving of their loads and whole-row
\* saves, once status cancelled is stored the save of the authenticated
\* handler leaves it cancelled.
C28_AuthenticatedNeverOverwritesCancelled ==
    [][\A i \in 1..Len(subs) :
          (subs[i].Status = "cancelled" /\ Saves("authenticated")) =>
              subs'[i].Status = "cancelled"]_vars

\* the value of metadata.authenticated_at of a stored row, Null when it has none
AuthenticatedAt(sub) ==
    IF Has(JsonUnmarshal(sub.Metadata), "authenticated_at")
    THEN <<JsonUnmarshal(sub.Metadata)["authenticated_at"]>>
    ELSE Null

\* C29: metadata.authenticated_at of a subscription is written at most once
\* over any execution, a verify-payment call and a subscription.authenticated
\* webhook for the same subscription running concurrently included: once a row
\* is stored with it, no later step changes or removes its value.
C29_AuthenticatedAtWrittenOnce ==
    [][\A i \in 1..Len(subs) :
          AuthenticatedAt(subs[i]) # Null =>
              AuthenticatedAt(subs'[i]) = AuthenticatedAt(subs[i])]_vars

(***************************************************************************)
(* Concurrent creates of one tenant config (SpecCreateRace).               *)
(***************************************************************************)
\* both calls have returned and they named the same pair
ReturnedForSamePair(g, h) ==
    /\ handlers.h[g].pc = "done"
    /\ handlers.h[h].pc = "done"
    /\ handlers.h[g].req[1].AppName = handlers.h[h].req[1].AppName
    /\ handlers.h[g].req[1].Environment = handlers.h[h].req[1].Environment

\* C30: in every reachable state the config store holds at most one config
\* per (app_name, environment) pair, inactive and soft-deleted configs
\* counted, under any interleaving of concurrent CreateRazorpayConfig calls;
\* of two calls for the same pair at most one succeeds and the other returns
\* an error.
C30_OneConfigPerPair ==
    /\ \A i, j \in 1..Len(configs) :
          (/\ configs[i].AppName = configs[j].AppName
           /\ configs[i].Environment = configs[j].Environment) => i = j
    /\ \A g, h \in Creators :
          (g # h /\ ReturnedForSamePair(g, h)) =>
              handlers.h[g].err # "" \/ handlers.h[h].err # ""

\* two calls for the same pair both found no config; one inserted the row and
\* the other was refused by the UNIQUE constraint
C30_Witness ==
    \E g, h \in Creators :
        /\ g # h
        /\ ReturnedForSamePair(g, h)
        /\ handlers.h[g].err = ""
        /\ handlers.h[h].err = ErrDuplicateKey
        /\ Len(configs) = 1

====
